---- MODULE Spec2Model ----
(***************************************************************************)
(* Model of the exporter metrics validation engine                         *)
(* (observability-stack/scripts/tools/validate-exporters.py).              *)
(*                                                                         *)
(* Python strings are sequences of one-character strings, so that split,   *)
(* strip, startswith, endswith, the label regular expression and the       *)
(* float()/int() conversions are computed on the characters.               *)
(***************************************************************************)
EXTENDS Integers, Sequences, FiniteSets, TLC

VARIABLES
    validator,  \* the ExporterValidator's configuration
    state,      \* position of validate_endpoint in the pipeline
    check,      \* in CHECKING: the number of the next rule check, 1..5
    clock,      \* time.time(), in milliseconds
    response,   \* what self.session.get returned or raised
    result,     \* the ValidationResult
    raised,     \* the exception that left validate_endpoint, "none"
    visited,    \* history: the pipeline states entered, in order
    fetches,    \* history: the number of self.session.get calls
    main,       \* the locals of main()
    scrape,     \* the locals of validate_prometheus_scraping
    calls,      \* history: the direct calls of the parser's methods
    workers     \* the locals of the validate_endpoint calls of concurrent workers

(***************************************************************************)
(* Characters and str methods                                              *)
(***************************************************************************)
LowerLetters == <<"a","b","c","d","e","f","g","h","i","j","k","l","m",
                  "n","o","p","q","r","s","t","u","v","w","x","y","z">>

UpperLetters == <<"A","B","C","D","E","F","G","H","I","J","K","L","M",
                  "N","O","P","Q","R","S","T","U","V","W","X","Y","Z">>

Digits == <<"0","1","2","3","4","5","6","7","8","9">>

Range(f) == {f[i] : i \in DOMAIN f}

IsLetter(c) == c \in Range(LowerLetters) \cup Range(UpperLetters)

IsDigit(c) == c \in Range(Digits)

\* \w of the re module
IsWordChar(c) == IsLetter(c) \/ IsDigit(c) \/ c = "_"

\* the characters str.strip() and str.split(None) treat as whitespace
IsSpace(c) == c \in {" ", "\t", "\n", "\r"}

\* None, where the code holds Optional[str]
None == <<"<None>">>

lower_char(c) ==
    IF \E i \in 1..26 : UpperLetters[i] = c
    THEN LowerLetters[CHOOSE i \in 1..26 : UpperLetters[i] = c]
    ELSE c

lower(s) == [i \in 1..Len(s) |-> lower_char(s[i])]

startswith(s, p) == Len(s) >= Len(p) /\ SubSeq(s, 1, Len(p)) = p

endswith(s, p) == Len(s) >= Len(p) /\ SubSeq(s, Len(s) - Len(p) + 1, Len(s)) = p

SetMin(S) == CHOOSE x \in S : \A y \in S : x <= y

SetMax(S) == CHOOSE x \in S : \A y \in S : x >= y

strip(s) ==
    LET keep == {i \in 1..Len(s) : ~IsSpace(s[i])}
    IN  IF keep = {} THEN <<>> ELSE SubSeq(s, SetMin(keep), SetMax(keep))

lstrip(s) ==
    LET keep == {i \in 1..Len(s) : ~IsSpace(s[i])}
    IN  IF keep = {} THEN <<>> ELSE SubSeq(s, SetMin(keep), Len(s))

\* s.rstrip(c) for a single character c
rstrip_char(s, c) ==
    LET keep == {i \in 1..Len(s) : s[i] # c}
    IN  IF keep = {} THEN <<>> ELSE SubSeq(s, 1, SetMax(keep))

\* index of the first occurrence of character c in s at or after i, 0 if none
find_char(s, c, i) ==
    LET hits == {j \in i..Len(s) : s[j] = c}
    IN  IF hits = {} THEN 0 ELSE SetMin(hits)

\* s.split(c) for a single character c
RECURSIVE split_char(_, _)
split_char(s, c) ==
    LET p == find_char(s, c, 1)
    IN  IF p = 0 THEN <<s>>
        ELSE <<SubSeq(s, 1, p - 1)>> \o split_char(SubSeq(s, p + 1, Len(s)), c)

\* length of the run of non-whitespace characters that starts t
token_len(t) ==
    LET sp == {i \in 1..Len(t) : IsSpace(t[i])}
    IN  IF sp = {} THEN Len(t) ELSE SetMin(sp) - 1

\* s.split(None, maxsplit); split_lstripped is given s without its leading
\* whitespace
RECURSIVE split_ws(_, _), split_lstripped(_, _)
split_lstripped(t, maxsplit) ==
    IF t = <<>> THEN <<>>
    ELSE IF maxsplit = 0 THEN <<t>>
    ELSE <<SubSeq(t, 1, token_len(t))>>
         \o split_ws(SubSeq(t, token_len(t) + 1, Len(t)), maxsplit - 1)

split_ws(s, maxsplit) == split_lstripped(lstrip(s), maxsplit)

(***************************************************************************)
(* float() and int() on a token                                            *)
(***************************************************************************)
digit_value(c) == (CHOOSE i \in 1..10 : Digits[i] = c) - 1

\* index just after the digit group (digits, single underscores allowed
\* between digits) that starts at i; i itself when there is none
RECURSIVE digits_end(_, _)
digits_end(s, i) ==
    IF i > Len(s) \/ ~IsDigit(s[i]) THEN i
    ELSE IF i + 1 <= Len(s) /\ IsDigit(s[i + 1]) THEN digits_end(s, i + 1)
    ELSE IF i + 2 <= Len(s) /\ s[i + 1] = "_" /\ IsDigit(s[i + 2])
         THEN digits_end(s, i + 2)
    ELSE i + 1

\* the digits of s[i..j-1], underscores dropped
digits_of(s, i, j) == SelectSeq(SubSeq(s, i, j - 1), IsDigit)

RECURSIVE digits_value(_)
digits_value(d) ==
    IF d = <<>> THEN 0
    ELSE 10 * digits_value(SubSeq(d, 1, Len(d) - 1)) + digit_value(d[Len(d)])

has_sign(s) == Len(s) >= 1 /\ s[1] \in {"+", "-"}

\* index of the first character after the sign, if any
after_sign(s) == IF has_sign(s) THEN 2 ELSE 1

is_negative(s) == has_sign(s) /\ s[1] = "-"

\* int(s) for s without surrounding whitespace, its digit group ending
\* before e
int_of_digits(s, e) ==
    IF e > after_sign(s) /\ e = Len(s) + 1
    THEN [ok |-> TRUE,
          val |-> (IF is_negative(s) THEN -1 ELSE 1)
                  * digits_value(digits_of(s, after_sign(s), e))]
    ELSE [ok |-> FALSE]

int_of_stripped(s) == int_of_digits(s, digits_end(s, after_sign(s)))

\* int(s): [ok |-> FALSE] stands for ValueError
int_of(s0) == int_of_stripped(strip(s0))

RECURSIVE normalise(_, _)
normalise(mant, exp) ==
    IF mant = 0 THEN <<0, 0>>
    ELSE IF mant % 10 = 0 THEN normalise(mant \div 10, exp + 1)
    ELSE <<mant, exp>>

\* a float value: sign, decimal mantissa and decimal exponent (trailing
\* zeros removed), or inf / nan
FloatValue(cls, neg, norm) ==
    [cls |-> cls, neg |-> neg, mant |-> norm[1], exp |-> norm[2]]

\* the decimal literal s: integer digits s[b..ie-1], fraction digits
\* s[fb..fe-1], exponent digits s[xs..xe-1] (xs = xe = fe without exponent)
float_of_groups(s, b, ie, fb, fe, xs, xe) ==
    IF /\ (ie > b \/ fe > fb)
       /\ (xs > fe => xe > xs)
       /\ xe = Len(s) + 1
    THEN [ok |-> TRUE,
          val |-> FloatValue("finite", is_negative(s),
                      normalise(digits_value(digits_of(s, b, ie) \o digits_of(s, fb, fe)),
                                (IF xs > fe
                                 THEN (IF s[xs - 1] = "-" THEN -1 ELSE 1)
                                      * digits_value(digits_of(s, xs, xe))
                                 ELSE 0) - (fe - fb)))]
    ELSE [ok |-> FALSE]

\* the exponent, if any, starts at fe with "e" or "E" and an optional sign
float_of_exponent(s, b, ie, fb, fe, xs) ==
    float_of_groups(s, b, ie, fb, fe, xs, IF xs > fe THEN digits_end(s, xs) ELSE fe)

float_of_fraction(s, b, ie, fb, fe) ==
    float_of_exponent(s, b, ie, fb, fe,
        IF fe <= Len(s) /\ s[fe] \in {"e", "E"}
        THEN (IF fe + 1 <= Len(s) /\ s[fe + 1] \in {"+", "-"} THEN fe + 2 ELSE fe + 1)
        ELSE fe)

\* the fraction, if any, starts at ie with "."
float_of_integer(s, b, ie) ==
    IF ie <= Len(s) /\ s[ie] = "."
    THEN float_of_fraction(s, b, ie, ie + 1, digits_end(s, ie + 1))
    ELSE float_of_fraction(s, b, ie, ie, ie)

float_of_word(s, word) ==
    IF word \in {<<"i","n","f">>, <<"i","n","f","i","n","i","t","y">>}
    THEN [ok |-> TRUE, val |-> FloatValue("inf", is_negative(s), <<0, 0>>)]
    ELSE IF word = <<"n","a","n">>
    THEN [ok |-> TRUE, val |-> FloatValue("nan", is_negative(s), <<0, 0>>)]
    ELSE float_of_integer(s, after_sign(s), digits_end(s, after_sign(s)))

float_of_stripped(s) == float_of_word(s, lower(SubSeq(s, after_sign(s), Len(s))))

\* float(s): [ok |-> FALSE] stands for ValueError
float_of(s0) == float_of_stripped(strip(s0))

(***************************************************************************)
(* PrometheusMetricParser                                                  *)
(***************************************************************************)
\* MetricType: the enum values, and the strings MetricType(type_str) accepts
MetricType == {"counter", "gauge", "histogram", "summary", "untyped"}

MetricTypeNames ==
    <<"c","o","u","n","t","e","r">>         :> "counter"
 @@ <<"g","a","u","g","e">>                 :> "gauge"
 @@ <<"h","i","s","t","o","g","r","a","m">> :> "histogram"
 @@ <<"s","u","m","m","a","r","y">>         :> "summary"
 @@ <<"u","n","t","y","p","e","d">>         :> "untyped"

Severity == {"INFO", "WARNING", "CRITICAL"}

\* ValidationIssue(severity, category, message, metric_name, details);
\* message is the fixed part of the text, details the value it carries
ValidationIssue(severity, category, message, metric_name, details) ==
    [severity |-> severity, category |-> category, message |-> message,
     metric_name |-> metric_name, details |-> details]

EmptyLabels == [k \in {} |-> <<>>]

\* index of the last character of the run of \w characters that starts at i
word_end(s, i) ==
    LET stops == {j \in i..Len(s) : ~IsWordChar(s[j])}
    IN  IF stops = {} THEN Len(s) ELSE SetMin(stops) - 1

\* index of the quote that closes ="..." after the word s[i..e], 0 if the
\* word is not followed by =" and a closing quote
closing_quote(s, e) ==
    IF e + 2 <= Len(s) /\ s[e + 1] = "=" /\ s[e + 2] = "\""
    THEN find_char(s, "\"", e + 3)
    ELSE 0

\* re.finditer(r'(\w+)="([^"]*)"', labels_str), scanning from position i;
\* parse_label_at tries the match whose word is s[i..e]
RECURSIVE parse_labels_from(_, _, _), parse_label_at(_, _, _, _)
parse_label_at(s, i, labels, e) ==
    IF closing_quote(s, e) # 0
    THEN parse_labels_from(s, closing_quote(s, e) + 1,
             (SubSeq(s, i, e) :> SubSeq(s, e + 3, closing_quote(s, e) - 1)) @@ labels)
    ELSE parse_labels_from(s, i + 1, labels)

parse_labels_from(s, i, labels) ==
    IF i > Len(s) THEN labels
    ELSE IF ~IsWordChar(s[i]) THEN parse_labels_from(s, i + 1, labels)
    ELSE parse_label_at(s, i, labels, word_end(s, i))

parse_labels(labels_str) == parse_labels_from(labels_str, 1, EmptyLabels)

Suffixes == << <<"_","b","u","c","k","e","t">>, <<"_","c","o","u","n","t">>,
               <<"_","s","u","m">>, <<"_","t","o","t","a","l">> >>

\* get_base_metric_name with '_sum' missing from the suffixes
get_base_metric_name_NoSum(name) ==
    LET hits == {i \in {1, 2, 4} : endswith(name, Suffixes[i])}
    IN  IF hits = {} THEN name
        ELSE SubSeq(name, 1, Len(name) - Len(Suffixes[SetMin(hits)]))

get_base_metric_name(name) ==
    LET hits == {i \in 1..Len(Suffixes) : endswith(name, Suffixes[i])}
    IN  IF hits = {} THEN name
        ELSE SubSeq(name, 1, Len(name) - Len(Suffixes[SetMin(hits)]))

\* the name and the labels of 'name{labels}'
sample_name(metric_part) ==
    IF find_char(metric_part, "{", 1) # 0
    THEN SubSeq(metric_part, 1, find_char(metric_part, "{", 1) - 1)
    ELSE metric_part

sample_labels(metric_part) ==
    IF find_char(metric_part, "{", 1) # 0
    THEN parse_labels(rstrip_char(
             SubSeq(metric_part, find_char(metric_part, "{", 1) + 1, Len(metric_part)),
             "}"))
    ELSE EmptyLabels

\* the sample of metric_part, float(parts[1]) and int(parts[2]); timestamp
\* is <<>> where the line has none
sample_of(metric_part, value, timestamp) ==
    IF ~value.ok \/ (timestamp # <<>> /\ ~timestamp[1].ok) THEN [ok |-> FALSE]
    ELSE [ok |-> TRUE,
          sample |-> [name |-> sample_name(metric_part),
                      labels |-> sample_labels(metric_part),
                      value |-> value.val,
                      timestamp |-> IF timestamp = <<>> THEN <<>>
                                    ELSE <<timestamp[1].val>>]]

sample_of_parts(parts) ==
    IF Len(parts) < 2 THEN [ok |-> FALSE]
    ELSE sample_of(parts[1], float_of(parts[2]),
                   IF Len(parts) > 2 THEN <<int_of(parts[3])>> ELSE <<>>)

\* _parse_sample: [ok |-> FALSE] stands for the None it returns
parse_sample(line) == sample_of_parts(split_ws(line, 2))

TYPE_PREFIX == <<"#"," ","T","Y","P","E">>

HELP_PREFIX == <<"#"," ","H","E","L","P">>

MetricInfo(name, metric_type, help_text) ==
    [name |-> name, metric_type |-> metric_type, help_text |-> help_text,
     samples |-> <<>>, label_names |-> {}]

\* the pending type and help kept from the last call of parse
parse_start_Kept ==
    [metrics |-> <<>>, issues |-> <<>>, current_metric_name |-> None,
     current_type |-> IF calls = <<>> THEN "None" ELSE calls[Len(calls)].current_type,
     current_help |-> IF calls = <<>> THEN None ELSE calls[Len(calls)].current_help]

\* the locals of parse before the first line
parse_start ==
    [metrics |-> <<>>, issues |-> <<>>, current_metric_name |-> None,
     current_type |-> "None", current_help |-> None]

\* position of the family base_name in metrics (the dict in insertion
\* order), 0 if it has none
family_index(metrics, base_name) ==
    IF \E k \in 1..Len(metrics) : metrics[k].name = base_name
    THEN CHOOSE k \in 1..Len(metrics) : metrics[k].name = base_name
    ELSE 0

\* metrics[base_name].samples.append(sample) and the update of label_names
append_sample(metrics, at, sample) ==
    [metrics EXCEPT ![at].samples = Append(@, sample),
                    ![at].label_names = @ \cup DOMAIN sample.labels]

\* lines 211-220 with the pending type written to a family that exists
add_sample_Retype(st, sample, base_name) ==
    IF family_index(st.metrics, base_name) # 0
    THEN [st EXCEPT !.metrics =
             append_sample(
                 [@ EXCEPT ![family_index(st.metrics, base_name)].metric_type =
                      IF st.current_type = "None" THEN "untyped" ELSE st.current_type],
                 family_index(st.metrics, base_name), sample)]
    ELSE [st EXCEPT !.metrics =
             append_sample(
                 Append(@, MetricInfo(base_name,
                               IF st.current_type = "None" THEN "untyped"
                               ELSE st.current_type,
                               IF st.current_help \in {None, <<>>} THEN <<>>
                               ELSE st.current_help)),
                 Len(@) + 1, sample)]

\* lines 211-220
add_sample(st, sample, base_name) ==
    IF family_index(st.metrics, base_name) # 0
    THEN [st EXCEPT !.metrics =
             append_sample(@, family_index(st.metrics, base_name), sample)]
    ELSE [st EXCEPT !.metrics =
             append_sample(
                 Append(@, MetricInfo(base_name,
                               IF st.current_type = "None" THEN "untyped"
                               ELSE st.current_type,
                               IF st.current_help \in {None, <<>>} THEN <<>>
                               ELSE st.current_help)),
                 Len(@) + 1, sample)]

\* lines 205-220
parse_sample_line(st, sample) ==
    IF sample.ok
    THEN add_sample(st, sample.sample, get_base_metric_name(sample.sample.name))
    ELSE st

\* the TYPE directive without the issue for an unknown type
parse_type_line_NoIssue(st, parts, line_num) ==
    IF Len(parts) >= 4
    THEN [st EXCEPT !.current_type = IF lower(parts[4]) \in DOMAIN MetricTypeNames
                                     THEN MetricTypeNames[lower(parts[4])]
                                     ELSE "untyped",
                    !.current_metric_name = parts[3]]
    ELSE st

\* lines 176-193; parts is line.split(None, 3)
parse_type_line(st, parts, line_num) ==
    IF Len(parts) >= 4
    THEN IF lower(parts[4]) \in DOMAIN MetricTypeNames
         THEN [st EXCEPT !.current_type = MetricTypeNames[lower(parts[4])],
                         !.current_metric_name = parts[3]]
         ELSE [st EXCEPT !.current_type = "untyped",
                         !.issues = Append(@, ValidationIssue("WARNING",
                             "parsing", "Unknown metric type", parts[3],
                             [type_str |-> lower(parts[4]), line |-> line_num])),
                         !.current_metric_name = parts[3]]
    ELSE st

\* lines 196-202; parts is line.split(None, 3)
parse_help_line(st, parts) ==
    IF Len(parts) >= 4
    THEN [st EXCEPT !.current_help = parts[4],
                    !.current_metric_name = parts[3]]
    ELSE st

\* one iteration of the loop over the lines, line being the stripped line
parse_stripped_line(st, line, line_num) ==
    IF line = <<>>
       \/ (/\ startswith(line, <<"#">>)
           /\ ~startswith(line, TYPE_PREFIX)
           /\ ~startswith(line, HELP_PREFIX))
    THEN st
    ELSE IF startswith(line, TYPE_PREFIX)
    THEN parse_type_line(st, split_ws(line, 3), line_num)
    ELSE IF startswith(line, HELP_PREFIX)
    THEN parse_help_line(st, split_ws(line, 3))
    ELSE parse_sample_line(st, parse_sample(line))

parse_line(st, raw, line_num) == parse_stripped_line(st, strip(raw), line_num)

RECURSIVE parse_lines(_, _, _)
parse_lines(st, lines, line_num) ==
    IF line_num > Len(lines) THEN st
    ELSE parse_lines(parse_line(st, lines[line_num], line_num), lines, line_num + 1)

\* parse(content) -> (metrics_info, parsing_issues)
parse_return(st) == [metrics |-> st.metrics, issues |-> st.issues]

\* the locals of parse after the loop over the lines
parse_locals(content) ==
    parse_lines(parse_start, split_char(strip(content), "\n"), 1)

parse(content) == parse_return(parse_locals(content))

\* what the pattern between ^ and $ has to match: re.match lets $ match at
\* the end of the string and also just before a newline that ends it
before_dollar(name) ==
    IF name # <<>> /\ name[Len(name)] = "\n"
    THEN SubSeq(name, 1, Len(name) - 1)
    ELSE name

\* METRIC_NAME_RE.match(name) and LABEL_NAME_RE.match(name)
METRIC_NAME_RE(name) ==
    /\ Len(before_dollar(name)) >= 1
    /\ (IsLetter(name[1]) \/ name[1] \in {"_", ":"})
    /\ \A i \in 2..Len(before_dollar(name)) : IsWordChar(name[i]) \/ name[i] = ":"

LABEL_NAME_RE(name) ==
    /\ Len(before_dollar(name)) >= 1
    /\ (IsLetter(name[1]) \/ name[1] = "_")
    /\ \A i \in 2..Len(before_dollar(name)) : IsWordChar(name[i])

\* validate_metric_name / validate_label_name: the error, "" for None
validate_metric_name(name) ==
    IF ~METRIC_NAME_RE(name)
    THEN "Invalid metric name format"
    ELSE IF startswith(name, <<"_">>)
    THEN "Metric name should not start with underscore"
    ELSE ""

validate_label_name(name) ==
    IF ~LABEL_NAME_RE(name)
    THEN "Invalid label name format"
    ELSE IF startswith(name, <<"_">>)
    THEN "Label name should not start with underscore"
    ELSE IF startswith(name, <<"_","_">>)
    THEN "Label name uses reserved prefix '__'"
    ELSE ""

(***************************************************************************)
(* ValidationResult                                                        *)
(***************************************************************************)
\* ValidationResult(endpoint, timestamp, duration_ms=0, total_metrics=0,
\* total_samples=0) with the default empty issues and metrics_info
ValidationResult(endpoint) ==
    [endpoint |-> endpoint, duration_ms |-> 0, total_metrics |-> 0,
     total_samples |-> 0, issues |-> <<>>, metrics_info |-> <<>>]

has_critical(r) == \E i \in 1..Len(r.issues) : r.issues[i].severity = "CRITICAL"

has_warnings(r) == \E i \in 1..Len(r.issues) : r.issues[i].severity = "WARNING"

\* exit_code with the two tests in the other order
exit_code_WarningFirst(r) ==
    IF has_warnings(r) THEN 1 ELSE IF has_critical(r) THEN 2 ELSE 0

\* exit_code without the branch for warnings
exit_code_NoWarnings(r) == IF has_critical(r) THEN 2 ELSE 0

exit_code(r) == IF has_critical(r) THEN 2 ELSE IF has_warnings(r) THEN 1 ELSE 0

(***************************************************************************)
(* The rule checks of ExporterValidator; each returns the issues it        *)
(* appends to result.issues, in order                                      *)
(***************************************************************************)
RECURSIVE flatten(_)
flatten(ss) == IF ss = <<>> THEN <<>> ELSE Head(ss) \o flatten(Tail(ss))

check_duplicate_metrics(metrics) ==
    flatten([k \in 1..Len(metrics) |->
        IF \E j \in 1..(k - 1) : metrics[j].name = metrics[k].name
        THEN <<ValidationIssue("CRITICAL", "validation", "Duplicate metric name",
                               metrics[k].name, [none |-> TRUE])>>
        ELSE <<>>])

\* order: the order in which this run iterates the label_names sets
check_metric_naming(metrics, order) ==
    flatten([k \in 1..Len(metrics) |->
        LET metric == metrics[k]
            error == validate_metric_name(metric.name)
            Has(l) == l \in metric.label_names
            labels == SelectSeq(order, Has)
        IN  (IF error # ""
             THEN <<ValidationIssue("WARNING", "naming", error, metric.name,
                                    [none |-> TRUE])>>
             ELSE <<>>)
            \o flatten([i \in 1..Len(labels) |->
                 IF validate_label_name(labels[i]) # ""
                 THEN <<ValidationIssue("WARNING", "naming",
                            validate_label_name(labels[i]), metric.name,
                            [label |-> labels[i]])>>
                 ELSE <<>>])])

\* binary64 0.7 is 6305039478318694 * 2^-53; the 53-bit significand in
\* three 18-bit limbs, most significant first
RECURSIVE pow2(_)
pow2(k) == IF k = 0 THEN 1 ELSE 2 * pow2(k - 1)

Limb == pow2(18)

Mant07 == <<91750, 104857, 157286>>

RECURSIVE bit_length(_)
bit_length(x) == IF x = 0 THEN 0 ELSE 1 + bit_length(x \div 2)

\* cardinality > max_cardinality * 0.7, the product being the binary64
\* product (exact product of the integer and the significand, rounded to 53
\* bits, ties to even), for 0 < max_cardinality < 2^13 and cardinality < 2^14
gt_times_07(cardinality, max_cardinality) ==
    LET p0 == max_cardinality * Mant07[3]
        x0 == p0 % Limb
        p1 == max_cardinality * Mant07[2] + p0 \div Limb
        x1 == p1 % Limb
        x2 == max_cardinality * Mant07[1] + p1 \div Limb
        s == bit_length(x2) - 17
        q0 == x0 \div pow2(s)
        rem == x0 % pow2(s)
        up == IF s >= 1 /\ (\/ 2 * rem > pow2(s)
                            \/ (2 * rem = pow2(s) /\ q0 % 2 = 1))
              THEN 1 ELSE 0
        carry == x1 = Limb - 1 /\ (q0 + up) * pow2(s) = Limb
        d == cardinality * pow2(17) - x2
    IN  d >= 2 \/ (d = 1 /\ ~carry)

check_label_cardinality(metrics, max_cardinality) ==
    flatten([k \in 1..Len(metrics) |->
        LET cardinality == Len(metrics[k].samples)
            details == [cardinality |-> cardinality, threshold |-> max_cardinality]
        IN  IF cardinality > max_cardinality
            THEN <<ValidationIssue("CRITICAL", "cardinality",
                       "High cardinality detected", metrics[k].name, details)>>
            ELSE IF gt_times_07(cardinality, max_cardinality)
            THEN <<ValidationIssue("WARNING", "cardinality",
                       "Approaching high cardinality", metrics[k].name, details)>>
            ELSE <<>>])

\* _check_metric_staleness without the break after the first stale sample
check_metric_staleness_NoBreak(metrics, current_time, staleness_threshold) ==
    flatten([k \in 1..Len(metrics) |->
        LET samples == metrics[k].samples
            Stale(sample) == /\ sample.timestamp # <<>>
                             /\ sample.timestamp[1] # 0
                             /\ current_time - sample.timestamp[1]
                                    > staleness_threshold * 1000
            stale == SelectSeq(samples, Stale)
        IN  [i \in 1..Len(stale) |->
                ValidationIssue("WARNING", "staleness", "Metric appears stale",
                    metrics[k].name,
                    [age_ms |-> current_time - stale[i].timestamp[1],
                     threshold |-> staleness_threshold])]])

\* current_time in milliseconds, staleness_threshold in seconds
check_metric_staleness(metrics, current_time, staleness_threshold) ==
    flatten([k \in 1..Len(metrics) |->
        LET samples == metrics[k].samples
            stale == {i \in 1..Len(samples) :
                         /\ samples[i].timestamp # <<>>
                         /\ samples[i].timestamp[1] # 0
                         /\ current_time - samples[i].timestamp[1]
                                > staleness_threshold * 1000}
        IN  IF stale # {}
            THEN <<ValidationIssue("WARNING", "staleness", "Metric appears stale",
                       metrics[k].name,
                       [age_ms |-> current_time - samples[SetMin(stale)].timestamp[1],
                        threshold |-> staleness_threshold])>>
            ELSE <<>>])

check_metric_types(metrics) ==
    flatten([k \in 1..Len(metrics) |->
        (IF metrics[k].metric_type = "untyped"
         THEN <<ValidationIssue("INFO", "type", "Metric type not specified",
                                metrics[k].name, [none |-> TRUE])>>
         ELSE <<>>)
        \o
        (IF /\ metrics[k].metric_type = "counter"
            /\ ~endswith(metrics[k].name, <<"_","t","o","t","a","l">>)
         THEN <<ValidationIssue("WARNING", "naming",
                    "Counter metric should end with '_total'",
                    metrics[k].name, [none |-> TRUE])>>
         ELSE <<>>)])

(***************************************************************************)
(* self.session: requests.Session with HTTPAdapter(max_retries=Retry(...)) *)
(***************************************************************************)
RetryTotal == 3

StatusForcelist == {429, 500, 502, 503, 504}

\* what one HTTP attempt can give: a connection-level error or a status
ConnectionErrors == {"ConnectTimeoutError", "ReadTimeoutError", "NewConnectionError"}

Answer(error, status) == [error |-> error, status |-> status]

\* urlopen with the Retry object: every connection-level error and every
\* status of the forcelist is retried while the budget lasts; an exhausted
\* budget raises MaxRetryError with the last error, or with ResponseError
\* for a status, as reason
RECURSIVE urlopen(_, _, _)
urlopen(server, attempt, total) ==
    LET a == server[attempt]
    IN  IF a.error = "none" /\ a.status \notin StatusForcelist
        THEN [reason |-> "none", status |-> a.status, attempts |-> attempt]
        ELSE IF total - 1 < 0
        THEN [reason |-> IF a.error = "none" THEN "ResponseError" ELSE a.error,
              status |-> 0, attempts |-> attempt]
        ELSE urlopen(server, attempt + 1, total - 1)

\* HTTPAdapter.send: the requests exception raised for a MaxRetryError
\* A malformed URL is rejected before any attempt (MissingSchema).
session_get(url_ok, server) ==
    LET u == urlopen(server, 1, RetryTotal)
    IN  IF ~url_ok THEN [exc |-> "MissingSchema", status_code |-> 0, attempts |-> 0]
        ELSE IF u.reason = "none"
        THEN [exc |-> "none", status_code |-> u.status, attempts |-> u.attempts]
        ELSE [exc |-> CASE u.reason = "ConnectTimeoutError" -> "ConnectTimeout"
                        [] u.reason = "ResponseError" -> "RetryError"
                        [] OTHER -> "ConnectionError",
              status_code |-> 0, attempts |-> u.attempts]

\* isinstance(exception, class) for the classes of the except clauses
IsInstance(exc, cls) ==
    CASE cls = "Timeout" -> exc \in {"ConnectTimeout", "ReadTimeout"}
      [] cls = "ConnectionError" -> exc \in {"ConnectTimeout", "ConnectionError"}
      [] cls = "Exception" -> TRUE

\* the except clauses without the final "except Exception"
ExceptClauses_NoCatchAll ==
    << [cls |-> "Timeout", category |-> "connectivity", message |-> "Request timeout"],
       [cls |-> "ConnectionError", category |-> "connectivity",
        message |-> "Connection failed"] >>

\* the except clauses with "except Exception" first
ExceptClauses_CatchAllFirst ==
    << [cls |-> "Exception", category |-> "error", message |-> "Unexpected error"],
       [cls |-> "Timeout", category |-> "connectivity", message |-> "Request timeout"],
       [cls |-> "ConnectionError", category |-> "connectivity",
        message |-> "Connection failed"] >>

\* the except clauses of validate_endpoint, in order
ExceptClauses ==
    << [cls |-> "Timeout", category |-> "connectivity", message |-> "Request timeout"],
       [cls |-> "ConnectionError", category |-> "connectivity",
        message |-> "Connection failed"],
       [cls |-> "Exception", category |-> "error", message |-> "Unexpected error"] >>

\* s in t, for strings
contains(t, s) ==
    \E i \in 1..(Len(t) - Len(s) + 1) : SubSeq(t, i, i + Len(s) - 1) = s

TEXT_PLAIN == <<"t","e","x","t","/","p","l","a","i","n">>

TEXT_HTML == <<"t","e","x","t","/","h","t","m","l">>

content_type_ok(content_type) ==
    contains(content_type, TEXT_PLAIN) \/ contains(content_type, TEXT_HTML)

(***************************************************************************)
(* Inputs: what the endpoint serves                                        *)
(***************************************************************************)
MaxLines == 2

LINE_TYPE_REQUESTS == <<"#"," ","T","Y","P","E"," ","r","e","q","u","e","s","t","s"," ","c","o","u","n","t","e","r">>

LINE_REQUESTS == <<"r","e","q","u","e","s","t","s"," ","1">>

LINE_TYPE_REQUESTS_TOTAL == <<"#"," ","T","Y","P","E"," ","r","e","q","u","e","s","t","s","_","t","o","t","a","l"," ","c","o","u","n","t","e","r">>

LINE_REQUESTS_TOTAL == <<"r","e","q","u","e","s","t","s","_","t","o","t","a","l"," ","1">>

LINE_TYPE_H == <<"#"," ","T","Y","P","E"," ","h"," ","h","i","s","t","o","g","r","a","m">>

LINE_H_BUCKET == <<"h","_","b","u","c","k","e","t","{","l","e","=","\"","1","\"","}"," ","1">>

LINE_H_SUM == <<"h","_","s","u","m"," ","2"," ","5">>

LINE_H_COUNT == <<"h","_","c","o","u","n","t"," ","1">>

LINE_BAD_VALUE == <<"r","e","q","u","e","s","t","s"," ","x">>

LINE_HELP_REQUESTS == <<"#"," ","H","E","L","P"," ","r","e","q","u","e","s","t","s"," ","B">>

PoolLines == {LINE_TYPE_REQUESTS, LINE_REQUESTS, LINE_TYPE_REQUESTS_TOTAL, LINE_REQUESTS_TOTAL, LINE_TYPE_H, LINE_H_BUCKET, LINE_H_SUM, LINE_H_COUNT, LINE_BAD_VALUE, LINE_HELP_REQUESTS}

\* "\n".join(lines)
RECURSIVE join(_)
join(lines) ==
    LET h == Len(lines) \div 2
    IN  IF lines = <<>> THEN <<>>
        ELSE IF Len(lines) = 1 THEN lines[1]
        ELSE join(SubSeq(lines, 1, h)) \o <<"\n">>
             \o join(SubSeq(lines, h + 1, Len(lines)))

\* "# HELP test_total A counter\n# TYPE test_total counter\ntest_total 42\n"
TEXT_SIMPLE_COUNTER ==
    <<"#"," ","H","E","L","P"," ","t","e","s","t","_","t","o","t","a","l"," ","A"," ","c","o","u","n","t","e","r","\n","#"," ","T","Y","P","E"," ","t","e","s","t","_","t","o","t","a","l"," ","c","o","u","n","t","e","r","\n","t","e","s","t","_","t","o","t","a","l"," ","4","2","\n">>

\* two TYPE/sample blocks for the same metric
TEXT_TWO_BLOCKS ==
    join(<<LINE_TYPE_REQUESTS, LINE_REQUESTS, LINE_TYPE_REQUESTS, LINE_REQUESTS>>)

\* one histogram: bucket, sum and count
TEXT_HISTOGRAM == join(<<LINE_TYPE_H, LINE_H_BUCKET, LINE_H_SUM, LINE_H_COUNT>>)

\* a label value that holds a space
LINE_LABEL_SPACE == <<"r","e","q","u","e","s","t","s","{","a","=","\"","x"," ","y","\"","}"," ","1">>

\* samples with explicit timestamps, in milliseconds
LINE_ZERO_TIMESTAMP == <<"r","e","q","u","e","s","t","s"," ","1"," ","0">>

LINE_H_COUNT_OLD == <<"h","_","c","o","u","n","t"," ","1"," ","7">>

LINE_H_SUM_RECENT == <<"h","_","s","u","m"," ","2"," ","8","0","0","0">>

\* a sample with a label value that holds a space, between a malformed line
\* and a plain sample
TEXT_LABEL_SPACE == join(<<LINE_BAD_VALUE, LINE_LABEL_SPACE, LINE_REQUESTS>>)

TEXT_ZERO_TIMESTAMP == LINE_ZERO_TIMESTAMP

\* one family with two old samples, and with a recent sample before an old one
TEXT_TWO_STALE == join(<<LINE_H_SUM, LINE_H_COUNT_OLD>>)

TEXT_RECENT_THEN_STALE == join(<<LINE_H_SUM_RECENT, LINE_H_COUNT_OLD>>)

\* TYPE directives with an unknown type and with a type in upper case
LINE_TYPE_UNKNOWN == <<"#"," ","T","Y","P","E"," ","r","e","q","u","e","s","t","s"," ","f","o","o">>

LINE_TYPE_UPPER == <<"#"," ","T","Y","P","E"," ","r","e","q","u","e","s","t","s"," ","G","A","U","G","E">>

\* label names with a hyphen and with a leading underscore, and a metric
\* name with a hyphen
LINE_HYPHEN_LABEL == <<"r","e","q","u","e","s","t","s","{","m","y","-","l","a","b","e","l","=","\"","x","\"","}"," ","1">>

LINE_UNDERSCORE_LABEL == <<"r","e","q","u","e","s","t","s","{","_","a","=","\"","x","\"","}"," ","1">>

LINE_BAD_NAME == <<"m","y","-","m","e","t","r","i","c"," ","1">>

TEXT_UNKNOWN_TYPE == join(<<LINE_TYPE_REQUESTS, LINE_TYPE_UNKNOWN, LINE_REQUESTS>>)

TEXT_UPPER_TYPE == join(<<LINE_TYPE_UPPER, LINE_REQUESTS>>)

TEXT_LABEL_NAMES == join(<<LINE_HYPHEN_LABEL, LINE_UNDERSCORE_LABEL, LINE_BAD_NAME>>)

\* directives that name a family after its first sample
TEXT_LATE_TYPE ==
    join(<<LINE_REQUESTS, LINE_TYPE_REQUESTS, LINE_HELP_REQUESTS, LINE_REQUESTS>>)

TEXT_RETYPED ==
    join(<<LINE_TYPE_REQUESTS, LINE_REQUESTS, LINE_TYPE_UPPER, LINE_REQUESTS>>)

\* the texts written out, beside the texts made of pool lines
NamedTexts ==
    {TEXT_SIMPLE_COUNTER, TEXT_TWO_BLOCKS, TEXT_HISTOGRAM, TEXT_LABEL_SPACE,
     TEXT_ZERO_TIMESTAMP, TEXT_TWO_STALE, TEXT_RECENT_THEN_STALE,
     TEXT_UNKNOWN_TYPE, TEXT_UPPER_TYPE, TEXT_LABEL_NAMES, TEXT_LATE_TYPE,
     TEXT_RETYPED}

Texts ==
    NamedTexts
    \cup {join(ls) : ls \in UNION {[1..n -> PoolLines] : n \in 0..MaxLines}}

ContentTypes ==
    { <<"t","e","x","t","/","p","l","a","i","n",";"," ","v","e","r","s","i","o","n","=","0",".","0",".","4">>,
      TEXT_HTML,
      <<"a","p","p","l","i","c","a","t","i","o","n","/","j","s","o","n">> }

StatusCodes == {200, 204, 404} \cup StatusForcelist

Answers ==
    {Answer(e, 0) : e \in ConnectionErrors} \cup {Answer("none", c) : c \in StatusCodes}

RetriedAnswers ==
    {a \in Answers : a.error # "none" \/ a.status \in StatusForcelist}

\* an endpoint gives one answer to the first n attempts and another to the
\* later ones
Servers ==
    {[k \in 1..(RetryTotal + 1) |-> IF k <= n THEN first ELSE last] :
        first \in RetriedAnswers, n \in 0..(RetryTotal + 1), last \in Answers}

\* what self.session.get can return or raise, for a well-formed and for a
\* malformed URL
SessionGets == [ok \in BOOLEAN |-> {session_get(ok, server) : server \in Servers}]

\* the endpoint argument: a URL the session accepts, or a malformed one
Endpoints == {"http://localhost:9100/metrics", "localhost:9100"}

url_ok(endpoint) == endpoint = "http://localhost:9100/metrics"

\* ExporterValidator(timeout, max_cardinality, staleness_threshold): the
\* defaults, and a validator with low thresholds
DefaultMaxCardinality == 1000

DefaultStalenessThreshold == 300

LowMaxCardinality == 2

LowStalenessThreshold == 3

Validators ==
    { [max_cardinality |-> DefaultMaxCardinality,
       staleness_threshold |-> DefaultStalenessThreshold],
      [max_cardinality |-> LowMaxCardinality,
       staleness_threshold |-> LowStalenessThreshold] }

\* time.time() in milliseconds when validate_endpoint is entered
StartTime == 9000

(***************************************************************************)
(* State                                                                   *)
(***************************************************************************)
vars ==
    <<validator, state, check, clock, response, result, raised, visited, fetches,
      main, scrape, calls, workers>>

NoResponse ==
    [exc |-> "none", status_code |-> 0, content_type |-> <<>>, text |-> <<>>,
     attempts |-> 0]

\* main() and validate_prometheus_scraping not running
NoMain == [pc |-> "none"]

NoScrape == [index |-> 0]

\* no concurrent worker running
NoWorkers == <<>>

\* validate_endpoint entered: start_time taken, result created
Init ==
    /\ validator \in Validators
    /\ state = "FETCHING"
    /\ check = 0
    /\ clock = StartTime
    /\ response = NoResponse
    /\ \E endpoint \in Endpoints : result = ValidationResult(endpoint)
    /\ raised = "none"
    /\ visited = <<"FETCHING">>
    /\ fetches = 0
    /\ main = NoMain
    /\ scrape = NoScrape
    /\ calls = <<>>
    /\ workers = NoWorkers

Goto(s) == state' = s /\ visited' = Append(visited, s)

\* time passes while a step runs
Tick == clock' = clock + 1

\* the finally clause: result.duration_ms = (time.time() - start_time) * 1000
finally(r, now) == [r EXCEPT !.duration_ms = now - StartTime]

\* the except clause that catches exc: its index, 0 if none does
except_clause(exc) ==
    LET hits == {i \in 1..Len(ExceptClauses) : IsInstance(exc, ExceptClauses[i].cls)}
    IN  IF hits = {} THEN 0 ELSE SetMin(hits)

\* an exception raised inside the try block
Except(exc) ==
    LET c == except_clause(exc)
    IN  /\ raised' = IF c = 0 THEN exc ELSE "none"
        /\ result' = finally(
               IF c = 0 THEN result
               ELSE [result EXCEPT !.issues = Append(@,
                        ValidationIssue("CRITICAL", ExceptClauses[c].category,
                            ExceptClauses[c].message, None, [error |-> exc]))],
               clock')
        /\ Goto("DONE")

\* the HTTP status check without the Content-Type check after it
check_response_NoContentTypeCheck(r, resp) ==
    IF resp.status_code # 200
    THEN [r EXCEPT !.issues = Append(@, ValidationIssue("CRITICAL", "http", "HTTP",
                        None, [status_code |-> resp.status_code]))]
    ELSE r

\* the result after the HTTP status check and the Content-Type check
check_response(r, resp) ==
    IF resp.status_code # 200
    THEN [r EXCEPT !.issues = Append(@, ValidationIssue("CRITICAL", "http", "HTTP",
                        None, [status_code |-> resp.status_code]))]
    ELSE IF ~content_type_ok(resp.content_type)
    THEN [r EXCEPT !.issues = Append(@, ValidationIssue("WARNING", "http",
                        "Unexpected Content-Type", None,
                        [content_type |-> resp.content_type]))]
    ELSE r

\* the status check without its "return result"
after_status_NoReturn(status_code) == "PARSING"

\* where the status check sends the pipeline: "return result" on a status
\* other than 200
after_status(status_code) == IF status_code # 200 THEN "DONE" ELSE "PARSING"

\* lines 379-402: response = self.session.get(endpoint, timeout), then the
\* status and Content-Type checks
Fetch ==
    /\ state = "FETCHING"
    /\ Tick
    /\ fetches' = fetches + 1
    /\ UNCHANGED <<validator, check, main, scrape, calls, workers>>
    /\ \E got \in SessionGets[url_ok(result.endpoint)] :
         \/ /\ got.exc # "none"
            /\ response' = [NoResponse EXCEPT !.exc = got.exc,
                                              !.attempts = got.attempts]
            /\ Except(got.exc)
         \/ /\ got.exc = "none"
            /\ response' \in [exc : {"none"}, status_code : {got.status_code},
                              content_type : ContentTypes, text : Texts,
                              attempts : {got.attempts}]
            /\ IF after_status(got.status_code) = "DONE"
               THEN result' = finally(check_response(result, response'), clock')
               ELSE result' = check_response(result, response')
            /\ Goto(after_status(got.status_code))
            /\ UNCHANGED raised

RECURSIVE sum_samples(_)
sum_samples(metrics) ==
    IF metrics = <<>> THEN 0
    ELSE Len(Head(metrics).samples) + sum_samples(Tail(metrics))

\* lines 404-409
Parse ==
    /\ state = "PARSING"
    /\ Tick
    /\ LET parsed == parse(response.text)
       IN  result' = [result EXCEPT !.issues = @ \o parsed.issues,
                                    !.metrics_info = parsed.metrics,
                                    !.total_metrics = Len(parsed.metrics),
                                    !.total_samples = sum_samples(parsed.metrics)]
    /\ Goto("CHECKING")
    /\ check' = 1
    /\ UNCHANGED <<validator, response, raised, fetches, main, scrape, calls, workers>>

\* a rule check that replaces the issues of the result by its own
RunCheck_Overwrite(n, issues) ==
    /\ state = "CHECKING"
    /\ check = n
    /\ Tick
    /\ result' = [result EXCEPT !.issues = issues]
    /\ check' = n + 1
    /\ UNCHANGED <<validator, state, response, raised, visited, fetches, main, scrape, calls, workers>>

\* one rule check appends its issues and hands over to the next
RunCheck(n, issues) ==
    /\ state = "CHECKING"
    /\ check = n
    /\ Tick
    /\ result' = [result EXCEPT !.issues = @ \o issues]
    /\ check' = n + 1
    /\ UNCHANGED <<validator, state, response, raised, visited, fetches, main, scrape, calls, workers>>

CheckDuplicateMetrics == RunCheck(1, check_duplicate_metrics(result.metrics_info))

AllLabelNames ==
    UNION {result.metrics_info[k].label_names : k \in 1..Len(result.metrics_info)}

Orders(S) ==
    {o \in [1..Cardinality(S) -> S] : \A i, j \in DOMAIN o : o[i] = o[j] => i = j}

\* a set of str is iterated in an order that varies from run to run
CheckMetricNaming ==
    \E order \in Orders(AllLabelNames) :
        RunCheck(2, check_metric_naming(result.metrics_info, order))

CheckLabelCardinality ==
    RunCheck(3, check_label_cardinality(result.metrics_info, validator.max_cardinality))

CheckMetricStaleness ==
    RunCheck(4, check_metric_staleness(result.metrics_info, clock,
                                       validator.staleness_threshold))

\* the last check, then the finally clause and return result
CheckMetricTypes ==
    /\ state = "CHECKING"
    /\ check = 5
    /\ Tick
    /\ result' = finally([result EXCEPT !.issues =
                              @ \o check_metric_types(result.metrics_info)], clock')
    /\ check' = 0
    /\ Goto("DONE")
    /\ UNCHANGED <<validator, response, raised, fetches, main, scrape, calls, workers>>

Next ==
    \/ Fetch
    \/ Parse
    \/ CheckDuplicateMetrics
    \/ CheckMetricNaming
    \/ CheckLabelCardinality
    \/ CheckMetricStaleness
    \/ CheckMetricTypes

Spec == Init /\ [][Next]_vars

\* validate_endpoint is one synchronous call and the fetch is bounded by the
\* timeout and the retry budget: a step that can be taken is taken.  The
\* conjunct for Parse is WF_vars(Parse) with ENABLED <<Parse>>_vars written
\* as the guard of Parse, which is all that can disable it.
FairSpec ==
    /\ Spec
    /\ WF_vars(Fetch)
    /\ ([]<>(state # "PARSING") \/ []<><<Parse>>_vars)
    /\ WF_vars(CheckDuplicateMetrics)
    /\ WF_vars(CheckMetricNaming)
    /\ WF_vars(CheckLabelCardinality)
    /\ WF_vars(CheckMetricStaleness)
    /\ WF_vars(CheckMetricTypes)

(***************************************************************************)
(* A ValidationResult built directly and appended to, as in                *)
(* test_exit_code_logic                                                    *)
(***************************************************************************)
MaxIssues == 3

InitAppend ==
    /\ validator \in Validators
    /\ state = "NONE"
    /\ check = 0
    /\ clock = StartTime
    /\ response = NoResponse
    /\ result = ValidationResult("test")
    /\ raised = "none"
    /\ visited = <<>>
    /\ fetches = 0
    /\ main = NoMain
    /\ scrape = NoScrape
    /\ calls = <<>>
    /\ workers = NoWorkers

\* result.issues.append(ValidationIssue(severity, category, message))
AppendIssue ==
    /\ Len(result.issues) < MaxIssues
    /\ \E severity \in Severity, category \in {"test", "naming"} :
         result' = [result EXCEPT !.issues = Append(@,
                       ValidationIssue(severity, category, "test", None,
                                       [none |-> TRUE]))]
    /\ UNCHANGED <<validator, state, check, clock, response, raised, visited, fetches, main, scrape, calls, workers>>

NextAppend == AppendIssue

SpecAppend == InitAppend /\ [][NextAppend]_vars

(***************************************************************************)
(* The rule checks on one family of n samples with max_cardinality M, as   *)
(* in test_validate_high_cardinality: the body is n lines                  *)
(* test_total{id="<i>"} <i> after the HELP and TYPE lines                  *)
(***************************************************************************)
MaxSamples == 101

MaxThreshold == 100

RECURSIVE to_digits(_)
to_digits(i) ==
    IF i < 10 THEN <<Digits[i + 1]>>
    ELSE to_digits(i \div 10) \o <<Digits[(i % 10) + 1]>>

TEST_TOTAL == <<"t","e","s","t","_","t","o","t","a","l">>

LABEL_ID == <<"i","d">>

cardinality_line(i) ==
    TEST_TOTAL \o <<"{","i","d","=","\"">> \o to_digits(i) \o <<"\"","}"," ">>
    \o to_digits(i)

cardinality_text(n) ==
    join(<< <<"#"," ","H","E","L","P"," ","t","e","s","t","_","t","o","t","a","l"," ","T","e","s","t"," ","m","e","t","r","i","c">>,
            <<"#"," ","T","Y","P","E"," ","t","e","s","t","_","t","o","t","a","l"," ","c","o","u","n","t","e","r">> >>
         \o [i \in 1..n |-> cardinality_line(i - 1)])

\* what parse returns for cardinality_text(n)
cardinality_metrics(n) ==
    << [name |-> <<"t","e","s","t">>, metric_type |-> "counter",
        help_text |-> <<"T","e","s","t"," ","m","e","t","r","i","c">>,
        samples |-> [i \in 1..n |->
            [name |-> TEST_TOTAL, labels |-> (LABEL_ID :> to_digits(i - 1)),
             value |-> [cls |-> "finite", neg |-> FALSE,
                        mant |-> normalise(i - 1, 0)[1], exp |-> normalise(i - 1, 0)[2]],
             timestamp |-> <<>>]],
        label_names |-> {LABEL_ID}] >>

\* validate_endpoint about to run _check_label_cardinality
InitCardinality ==
    /\ \E M \in 1..MaxThreshold :
         validator = [max_cardinality |-> M,
                      staleness_threshold |-> DefaultStalenessThreshold]
    /\ state = "CHECKING"
    /\ check = 3
    /\ clock = StartTime + 4
    /\ raised = "none"
    /\ visited = <<"FETCHING", "PARSING", "CHECKING">>
    /\ fetches = 1
    /\ main = NoMain
    /\ scrape = NoScrape
    /\ calls = <<>>
    /\ workers = NoWorkers
    /\ \E n \in 1..MaxSamples :
         /\ response = [exc |-> "none", status_code |-> 200,
                        content_type |-> TEXT_PLAIN, text |-> cardinality_text(n),
                        attempts |-> 1]
         /\ result = [ValidationResult("http://localhost:9100/metrics") EXCEPT
                         !.metrics_info = cardinality_metrics(n),
                         !.total_metrics = 1,
                         !.total_samples = n]

NextCardinality ==
    \/ CheckLabelCardinality
    \/ CheckMetricStaleness
    \/ CheckMetricTypes

SpecCardinality == InitCardinality /\ [][NextCardinality]_vars

(***************************************************************************)
(* Properties                                                              *)
(***************************************************************************)
\* the indices of the issues of the result with a severity and a category
IssuesOf(severity, category) ==
    {i \in 1..Len(result.issues) :
        /\ result.issues[i].severity = severity
        /\ result.issues[i].category = category}

IssuesIn(category) ==
    {i \in 1..Len(result.issues) : result.issues[i].category = category}

Returned == state = "DONE"

GotBody == response.exc = "none" /\ response.status_code = 200

NoRepeat(seq) == \A i, j \in 1..Len(seq) : seq[i] = seq[j] => i = j

C2_ExitCode ==
    /\ [](LET criticals == {i \in 1..Len(result.issues) :
                               result.issues[i].severity = "CRITICAL"}
              warnings == {i \in 1..Len(result.issues) :
                              result.issues[i].severity = "WARNING"}
          IN  exit_code(result) = IF Cardinality(criticals) >= 1 THEN 2
                                  ELSE IF Cardinality(warnings) >= 1 THEN 1
                                  ELSE 0)
    /\ [][/\ exit_code(result') >= exit_code(result)
          /\ (/\ Len(result'.issues) = Len(result.issues) + 1
              /\ result'.issues[Len(result'.issues)].severity = "INFO")
             => exit_code(result') = exit_code(result)]_vars

\* a WARNING appended after a CRITICAL, and an INFO issue
C2_Witness ==
    /\ Len(result.issues) = 3
    /\ result.issues[1].severity = "CRITICAL"
    /\ result.issues[2].severity = "WARNING"
    /\ result.issues[3].severity = "INFO"
    /\ exit_code(result) = 2

\* C3: the pipeline states are entered in the order FETCHING, PARSING,
\* CHECKING, DONE, or FETCHING, DONE when the fetch failed; parsing follows
\* only a fetch that did not fail; no state is entered twice; session.get is
\* called once, in FETCHING; DONE is reached.
C3_PipelineOrder ==
    /\ [][state' # state =>
            \/ state = "FETCHING" /\ state' = "PARSING" /\ GotBody'
            \/ state = "PARSING" /\ state' = "CHECKING"
            \/ state = "CHECKING" /\ state' = "DONE"
            \/ state = "FETCHING" /\ state' = "DONE" /\ ~GotBody']_vars
    /\ [](/\ NoRepeat(visited)
          /\ visited[Len(visited)] = state
          /\ fetches = IF state = "FETCHING" THEN 0 ELSE 1)
    /\ <>Returned

C3_Witness ==
    /\ Returned
    /\ visited = <<"FETCHING", "PARSING", "CHECKING", "DONE">>
    /\ fetches = 1

\* C4: after a timeout or a connection error the result holds exactly one
\* issue, CRITICAL and of category connectivity; total_metrics and
\* total_samples are 0, has_critical holds, exit_code is 2, and neither
\* parsing nor a rule check ran.
C4_ConnectivityFailure ==
    (Returned /\ response.exc \in {"ConnectTimeout", "ReadTimeout", "ConnectionError"})
    => /\ Len(result.issues) = 1
       /\ result.issues[1].severity = "CRITICAL"
       /\ result.issues[1].category = "connectivity"
       /\ result.total_metrics = 0
       /\ result.total_samples = 0
       /\ result.metrics_info = <<>>
       /\ has_critical(result)
       /\ exit_code(result) = 2
       /\ visited = <<"FETCHING", "DONE">>

\* a connection that failed on every attempt
C4_Witness ==
    /\ Returned
    /\ response.exc = "ConnectionError"
    /\ response.attempts = RetryTotal + 1
    /\ Len(result.issues) = 1

\* C5: when the last answer is a non-2xx status, the retried statuses
\* included, the result holds exactly one issue, CRITICAL and of category
\* http, and parsing and checking are skipped.
C5_HttpFailure ==
    (/\ Returned
     /\ \/ response.exc = "RetryError"
        \/ response.exc = "none" /\ response.status_code \notin 200..299)
    => /\ Len(result.issues) = 1
       /\ result.issues[1].severity = "CRITICAL"
       /\ result.issues[1].category = "http"
       /\ visited = <<"FETCHING", "DONE">>

\* C6: the three-line counter text served as text/plain gives
\* total_metrics = 1, total_samples = 1, no issue and exit_code 0.
C6_SimpleCounter ==
    (/\ Returned
     /\ GotBody
     /\ response.text = TEXT_SIMPLE_COUNTER
     /\ contains(response.content_type, TEXT_PLAIN))
    => /\ result.total_metrics = 1
       /\ result.total_samples = 1
       /\ result.issues = <<>>
       /\ exit_code(result) = 0

\* C7: a counter exposed as requests gets exactly one naming issue, a
\* WARNING; a counter exposed as requests_total gets no naming issue.
C7_CounterSuffix ==
    (Returned /\ GotBody)
    => /\ response.text = join(<<LINE_TYPE_REQUESTS, LINE_REQUESTS>>)
          => /\ Cardinality(IssuesIn("naming")) = 1
             /\ Cardinality(IssuesOf("WARNING", "naming")) = 1
       /\ response.text = join(<<LINE_TYPE_REQUESTS_TOTAL, LINE_REQUESTS_TOTAL>>)
          => IssuesIn("naming") = {}

\* the base names of the metrics named by the well-formed # TYPE lines of a
\* text, in order
typed_base_names(text) ==
    LET lines == split_char(strip(text), "\n")
        Typed(l) == startswith(strip(l), TYPE_PREFIX) /\ Len(split_ws(strip(l), 3)) >= 4
        typed == SelectSeq(lines, Typed)
    IN  [i \in 1..Len(typed) |-> get_base_metric_name(split_ws(strip(typed[i]), 3)[3])]

\* C8: a base name that has two TYPE blocks in the text and samples gets
\* exactly one CRITICAL duplicate issue.
C8_DuplicateFamily ==
    (Returned /\ GotBody)
    => \A k \in 1..Len(result.metrics_info) :
         LET name == result.metrics_info[k].name
             blocks == {i \in 1..Len(typed_base_names(response.text)) :
                           typed_base_names(response.text)[i] = name}
         IN  Cardinality(blocks) >= 2
             => Cardinality({i \in IssuesOf("CRITICAL", "validation") :
                                result.issues[i].metric_name = name}) = 1

\* C9: once the text is parsed, no two families have the same name, and a
\* sample whose name ends in _bucket, _count, _sum or _total is in the
\* family named by its name without that suffix.
C9_BaseNameGrouping ==
    (state \in {"CHECKING", "DONE"} /\ GotBody)
    => LET metrics == result.metrics_info
       IN  /\ \A j, k \in 1..Len(metrics) : metrics[j].name = metrics[k].name => j = k
           /\ \A k \in 1..Len(metrics) : \A i \in 1..Len(metrics[k].samples) :
                LET name == metrics[k].samples[i].name
                IN  \A u \in 1..Len(Suffixes) :
                      endswith(name, Suffixes[u])
                      => metrics[k].name = SubSeq(name, 1, Len(name) - Len(Suffixes[u]))

\* bucket, sum and count of one histogram in one family
C9_Witness ==
    /\ Returned
    /\ response.text = TEXT_HISTOGRAM
    /\ Len(result.metrics_info) = 1
    /\ Len(result.metrics_info[1].samples) = 3

\* C10: with n samples and max_cardinality M the cardinality check gives one
\* CRITICAL and no WARNING if n > M, one WARNING and no CRITICAL if
\* 0.7 M < n <= M, and nothing if n <= 0.7 M.
C10_CardinalityThresholds ==
    (state = "DONE" \/ check >= 4)
    => LET n == Len(result.metrics_info[1].samples)
           M == validator.max_cardinality
           criticals == Cardinality(IssuesOf("CRITICAL", "cardinality"))
           warnings == Cardinality(IssuesOf("WARNING", "cardinality"))
       IN  /\ n > M => criticals = 1 /\ warnings = 0
           /\ (10 * n > 7 * M /\ n <= M) => criticals = 0 /\ warnings = 1
           /\ 10 * n <= 7 * M => criticals = 0 /\ warnings = 0

(***************************************************************************)
(* The wire format of a sample line: name, optional label block whose      *)
(* quoted values may be any string, float value, optional integer          *)
(* timestamp                                                               *)
(***************************************************************************)
\* the lines of a text that are neither blank nor comments, stripped
sample_lines(text) ==
    LET lines == split_char(strip(text), "\n")
        IsSampleLine(l) == l # <<>> /\ ~startswith(l, <<"#">>)
    IN  SelectSeq([i \in 1..Len(lines) |-> strip(lines[i])], IsSampleLine)

\* index just after the metric name that starts s
name_end(s) ==
    LET stops == {j \in 1..Len(s) : ~(IsWordChar(s[j]) \/ s[j] = ":")}
    IN  IF stops = {} THEN Len(s) + 1 ELSE SetMin(stops)

\* index just after the "}" that closes the label block, scanning from i:
\* the first "}" outside double quotes; 0 if there is none
RECURSIVE label_block_end(_, _, _)
label_block_end(s, i, quoted) ==
    IF i > Len(s) THEN 0
    ELSE IF quoted /\ s[i] = "\\" THEN label_block_end(s, i + 2, quoted)
    ELSE IF s[i] = "\"" THEN label_block_end(s, i + 1, ~quoted)
    ELSE IF ~quoted /\ s[i] = "}" THEN i + 1
    ELSE label_block_end(s, i + 1, quoted)

\* index just after the name and the label block, 0 for an unclosed block
metric_end(s) ==
    IF name_end(s) <= Len(s) /\ s[name_end(s)] = "{"
    THEN label_block_end(s, name_end(s) + 1, FALSE)
    ELSE name_end(s)

\* the line starts with a metric name and a closed label block, if any
has_metric(s) ==
    /\ validate_metric_name(SubSeq(s, 1, name_end(s) - 1)) # "Invalid metric name format"
    /\ metric_end(s) # 0
    /\ (metric_end(s) > Len(s) \/ IsSpace(s[metric_end(s)]))

\* the whitespace-separated tokens after the name and the labels
value_tokens(s) == split_ws(SubSeq(s, metric_end(s), Len(s)), Len(s))

\* a float value and at most an integer timestamp after it
has_value(tokens) ==
    /\ Len(tokens) \in {1, 2}
    /\ float_of(tokens[1]).ok
    /\ Len(tokens) = 2 => int_of(tokens[2]).ok

well_formed_sample(s) == has_metric(s) /\ has_value(value_tokens(s))

\* missing value, non-numeric value or non-integer timestamp
malformed_sample(s) == has_metric(s) /\ ~has_value(value_tokens(s))

count(seq, Test(_)) == Len(SelectSeq(seq, Test))

Parsed == state \in {"CHECKING", "DONE"} /\ GotBody

\* C11: once the text is parsed, the result holds one WARNING parsing issue
\* for every malformed sample line (missing value, non-numeric value,
\* non-integer timestamp) of the text.
C11_MalformedLineRecorded ==
    Parsed
    => Cardinality({i \in IssuesOf("WARNING", "parsing") :
                       result.issues[i].message # "Unknown metric type"})
       = count(sample_lines(response.text), malformed_sample)

\* C12: once the text is parsed, total_samples is the number of well-formed
\* sample lines of the text, whatever malformed lines stand between them, and
\* every family holds the samples counted.
C12_WellFormedLinesCounted ==
    Parsed
    => /\ result.total_samples = count(sample_lines(response.text), well_formed_sample)
       /\ result.total_samples = sum_samples(result.metrics_info)

(***************************************************************************)
(* Staleness                                                               *)
(***************************************************************************)
\* _check_metric_staleness has just run; it read the clock one step ago
StalenessChecked == state = "CHECKING" /\ check = 5

StalenessTime == clock - 1

\* the samples of a family that carry an explicit timestamp older than the
\* threshold at time now (milliseconds), by position
old_samples(metric, now, threshold) ==
    {i \in 1..Len(metric.samples) :
        /\ metric.samples[i].timestamp # <<>>
        /\ now - metric.samples[i].timestamp[1] > threshold * 1000}

\* the staleness issues of the result for a family
staleness_issues(name) ==
    {i \in IssuesIn("staleness") : result.issues[i].metric_name = name}

\* C13: after the staleness check a family has a WARNING staleness issue if
\* one of its samples carries an explicit timestamp t, zero included, with
\* now - t greater than staleness_threshold seconds, and has no staleness
\* issue otherwise.
C13_StaleFamilyReported ==
    StalenessChecked
    => \A k \in 1..Len(result.metrics_info) :
         LET metric == result.metrics_info[k]
         IN  IF old_samples(metric, StalenessTime, validator.staleness_threshold) # {}
             THEN \E i \in staleness_issues(metric.name) :
                      result.issues[i].severity = "WARNING"
             ELSE staleness_issues(metric.name) = {}

C15_AtMostThreeAttempts == response.attempts <= 3

\* the issues the five rule checks append for metrics, the staleness check
\* reading the clock at current_time and the naming check iterating the
\* label names in order
rule_issues(metrics, order, v, current_time) ==
    check_duplicate_metrics(metrics)
    \o check_metric_naming(metrics, order)
    \o check_label_cardinality(metrics, v.max_cardinality)
    \o check_metric_staleness(metrics, current_time, v.staleness_threshold)
    \o check_metric_types(metrics)

\* C16: when the status is 200, whatever the Content-Type, the pipeline goes
\* through parsing and checking, the totals are those of the parsed body and
\* the issues are the parsing issues and the rule issues of that body; they
\* are preceded by exactly one http issue, a WARNING, when the Content-Type
\* contains neither text/plain nor text/html, and by none when it does.
C16_ContentTypeNonFatal ==
    (Returned /\ GotBody)
    => LET parsed == parse(response.text)
           http == IF content_type_ok(response.content_type) THEN 0 ELSE 1
       IN  /\ visited = <<"FETCHING", "PARSING", "CHECKING", "DONE">>
           /\ result.total_metrics = Len(parsed.metrics)
           /\ result.total_samples = sum_samples(parsed.metrics)
           /\ IssuesIn("http") = 1..http
           /\ IssuesOf("WARNING", "http") = 1..http
           /\ \E order \in Orders(AllLabelNames) :
                SubSeq(result.issues, http + 1, Len(result.issues))
                = parsed.issues
                  \o rule_issues(parsed.metrics, order, validator, clock - 2)

\* the histogram served as application/json: the http WARNING, then rule
\* issues, all three samples counted
C16_Witness ==
    /\ Returned
    /\ GotBody
    /\ ~content_type_ok(response.content_type)
    /\ response.text = TEXT_HISTOGRAM
    /\ result.total_samples = 3
    /\ IssuesOf("WARNING", "http") = {1}
    /\ Len(result.issues) >= 2

(***************************************************************************)
(* main(): endpoint selection, the validation loop and the exit code       *)
(***************************************************************************)
MaxFileLines == 2

MaxOpenPorts == 2

\* the ports of scan_common_ports, in the order of the dict
common_ports == <<9100, 9090, 9093, 9091, 9104, 9187, 9216, 9308, 9117, 9113>>

\* f"http://{host}:{port}/metrics"
scan_url(port) ==
    <<"h","t","t","p",":","/","/","h",":">> \o to_digits(port)
    \o <<"/","m","e","t","r","i","c","s">>

\* scan_common_ports: the URLs of the ports that answer 200, open being the
\* set of those ports
scan_common_ports(open) ==
    LET Answers200(port) == port \in open
    IN  [i \in 1..Len(SelectSeq(common_ports, Answers200)) |->
            scan_url(SelectSeq(common_ports, Answers200)[i])]

\* the sets of ports a scanned host may answer on
OpenPorts == {open \in SUBSET Range(common_ports) : Cardinality(open) <= MaxOpenPorts}

\* the lines of an endpoints file: an endpoint, a blank line, a comment, a
\* line of spaces
FILE_ENDPOINT == <<"h","t","t","p",":","/","/","a","/","m","\n">>

FILE_BLANK == <<"\n">>

FILE_COMMENT == <<"#"," ","c","\n">>

FILE_SPACES == <<" "," ","\n">>

FileLines == {FILE_ENDPOINT, FILE_BLANK, FILE_COMMENT, FILE_SPACES}

\* open() raised
Unreadable == <<"<unreadable>">>

Files == {Unreadable} \cup UNION {[1..n -> FileLines] : n \in 0..MaxFileLines}

\* [line.strip() for line in f if line.strip() and not line.startswith('#')]
read_endpoints(file) ==
    LET Kept(line) == strip(line) # <<>> /\ ~startswith(line, <<"#">>)
    IN  [i \in 1..Len(SelectSeq(file, Kept)) |-> strip(SelectSeq(file, Kept)[i])]

\* the parsed arguments: exactly one of endpoint, scan_host and
\* endpoints_file is given (a mutually exclusive, required group); the
\* endpoint may be the empty string
Args ==
    [mode : {"endpoint", "scan_host", "endpoints_file"},
     endpoint : {<<"h","t","t","p",":","/","/","a","/","m">>, <<>>},
     prometheus : BOOLEAN,
     exit_on_warning : BOOLEAN]

\* lines 933-948: the endpoints collected, or the early "return 2"
collect_endpoints(args, open, file) ==
    IF args.mode = "endpoint" /\ args.endpoint # <<>>
    THEN [returned |-> FALSE, endpoints |-> <<args.endpoint>>]
    ELSE IF args.mode = "scan_host"
    THEN IF scan_common_ports(open) = <<>>
         THEN [returned |-> TRUE, endpoints |-> <<>>]
         ELSE [returned |-> FALSE, endpoints |-> scan_common_ports(open)]
    ELSE IF args.mode = "endpoints_file"
    THEN IF file = Unreadable
         THEN [returned |-> TRUE, endpoints |-> <<>>]
         ELSE [returned |-> FALSE, endpoints |-> read_endpoints(file)]
    ELSE [returned |-> FALSE, endpoints |-> <<>>]

\* max(r.exit_code for r in results) without the max: the last result's
max_exit_code_Last(results, exit_on_warning) ==
    IF results = <<>> THEN 0 ELSE exit_code(results[Len(results)])

\* lines 976-983: the exit code main returns
max_exit_code(results, exit_on_warning) ==
    IF exit_on_warning /\ \E i \in 1..Len(results) : has_warnings(results[i])
    THEN SetMax({1} \cup {exit_code(results[i]) : i \in 1..Len(results)})
    ELSE SetMax({0} \cup {exit_code(results[i]) : i \in 1..Len(results)})

\* what validate_endpoint and validate_prometheus_scraping hand back to
\* main, which reads only the severities of the issues
ReturnedIssues ==
    LET issue(severity) == ValidationIssue(severity, "test", "test", None, [none |-> TRUE])
    IN  {<<>>, <<issue("INFO")>>, <<issue("WARNING")>>, <<issue("CRITICAL")>>,
         <<issue("WARNING"), issue("CRITICAL")>>}

InitMain ==
    /\ validator = [max_cardinality |-> DefaultMaxCardinality,
                    staleness_threshold |-> DefaultStalenessThreshold]
    /\ state = "NONE"
    /\ check = 0
    /\ clock = StartTime
    /\ response = NoResponse
    /\ result = ValidationResult("none")
    /\ raised = "none"
    /\ visited = <<>>
    /\ fetches = 0
    /\ scrape = NoScrape
    /\ calls = <<>>
    /\ workers = NoWorkers
    /\ \E args \in Args :
         /\ args.endpoint = <<>> => args.mode = "endpoint"
         /\ main = [pc |-> "collect", args |-> args, endpoints |-> <<>>,
                    results |-> <<>>, early |-> FALSE, exit_code |-> 0]

pipeline_vars ==
    <<validator, state, check, clock, response, result, raised, visited, fetches, scrape,
      calls, workers>>

\* lines 933-948
CollectEndpoints ==
    /\ main.pc = "collect"
    /\ \E open \in OpenPorts, file \in Files :
         LET collected == collect_endpoints(main.args, open, file)
         IN  main' = IF collected.returned
                     THEN [main EXCEPT !.pc = "returned", !.early = TRUE,
                                       !.exit_code = 2]
                     ELSE [main EXCEPT !.pc = "validate",
                                       !.endpoints = collected.endpoints]
    /\ UNCHANGED pipeline_vars

\* lines 953-955: one iteration of the loop over the endpoints
ValidateEndpoint ==
    /\ main.pc = "validate"
    /\ Len(main.results) < Len(main.endpoints)
    /\ \E issues \in ReturnedIssues :
         main' = [main EXCEPT !.results = Append(@,
                     [ValidationResult(main.endpoints[Len(main.results) + 1])
                          EXCEPT !.issues = issues])]
    /\ UNCHANGED pipeline_vars

\* lines 958-963: the control-plane result, if requested
ValidatePrometheus ==
    /\ main.pc = "validate"
    /\ Len(main.results) = Len(main.endpoints)
    /\ \/ /\ main.args.prometheus
          /\ \E issues \in ReturnedIssues :
               main' = [main EXCEPT !.pc = "output", !.results = Append(@,
                           [ValidationResult("prometheus") EXCEPT !.issues = issues])]
       \/ /\ ~main.args.prometheus
          /\ main' = [main EXCEPT !.pc = "output"]
    /\ UNCHANGED pipeline_vars

\* lines 966-983: the results are printed and the exit code is returned
ReturnExitCode ==
    /\ main.pc = "output"
    /\ main' = [main EXCEPT !.pc = "returned",
                            !.exit_code = max_exit_code(main.results,
                                                        main.args.exit_on_warning)]
    /\ UNCHANGED pipeline_vars

NextMain ==
    \/ CollectEndpoints
    \/ ValidateEndpoint
    \/ ValidatePrometheus
    \/ ReturnExitCode

SpecMain == InitMain /\ [][NextMain]_vars

\* C17: the exit code main computes from its results is 2 if a result has a
\* CRITICAL issue, else 1 if a result has a WARNING issue, else 0: the
\* maximum of the results' exit codes, and at least 1 with exit_on_warning
\* when a result has a warning.
C17_ProcessExitCode ==
    (main.pc = "returned" /\ ~main.early)
    => LET results == main.results
           codes == {exit_code(results[i]) : i \in 1..Len(results)}
       IN  /\ main.exit_code = IF \E i \in 1..Len(results) : has_critical(results[i])
                                THEN 2
                                ELSE IF \E i \in 1..Len(results) : has_warnings(results[i])
                                THEN 1
                                ELSE 0
           /\ \A c \in codes : main.exit_code >= c
           /\ codes # {} => main.exit_code \in codes
           /\ (/\ main.args.exit_on_warning
               /\ \E i \in 1..Len(results) : has_warnings(results[i]))
              => main.exit_code >= 1

\* a critical endpoint result followed by a clean control-plane result
C17_Witness ==
    /\ main.pc = "returned"
    /\ ~main.early
    /\ Len(main.results) = 2
    /\ exit_code(main.results[1]) = 2
    /\ exit_code(main.results[2]) = 0
    /\ main.exit_code = 2

\* C18: when a host scan or an endpoints file gives no endpoint, main
\* returns 2 and validates no endpoint.
C18_NoEndpointExitsTwo ==
    (/\ main.pc = "returned"
     /\ main.args.mode \in {"scan_host", "endpoints_file"}
     /\ main.endpoints = <<>>)
    => /\ main.exit_code = 2
       /\ \A i \in 1..Len(main.results) : main.results[i].endpoint = "prometheus"

(***************************************************************************)
(* validate_prometheus_scraping: one GET of /api/v1/targets, then the      *)
(* loop over the active targets                                            *)
(***************************************************************************)
MaxTargets == 2

\* a key the JSON object does not hold
Missing == "<missing>"

\* target_job = None
NoJob == "<None>"

\* d.get(key, default) for a key that may be missing
get(value, default) == IF value = Missing THEN default ELSE value

\* the scrape duration limit of line 630, and the durations, in milliseconds
SlowScrapeMs == 10 * 1000

\* an active target of the targets API, without its instance: health,
\* labels.job and lastScrapeDuration (<<>> when the key is missing)
TargetKinds ==
    [health : {"up", "down", Missing},
     job : {"node", "other", Missing},
     lastScrapeDuration : {<<>>, <<SlowScrapeMs>>, <<SlowScrapeMs + 1>>}]

\* the activeTargets list: the p-th target has the instance h:<9100 + p>
active_targets_of(kinds) ==
    [p \in 1..Len(kinds) |->
        [health |-> kinds[p].health, job |-> kinds[p].job,
         instance |-> <<"h",":">> \o to_digits(9100 + p),
         lastScrapeDuration |-> kinds[p].lastScrapeDuration]]

\* the bodies of the answer: not JSON, a JSON array, an object without
\* "status" or with "status": "error", and a success envelope whose "data"
\* is missing, null or an object with activeTargets
JsonBody(kind, status, data, targets) ==
    [kind |-> kind, status |-> status, data |-> data, activeTargets |-> targets]

JsonBodies ==
    {JsonBody("invalid", Missing, Missing, <<>>),
     JsonBody("array", Missing, Missing, <<>>),
     JsonBody("object", Missing, Missing, <<>>),
     JsonBody("object", "error", Missing, <<>>),
     JsonBody("object", "success", Missing, <<>>),
     JsonBody("object", "success", "null", <<>>)}
    \cup {JsonBody("object", "success", "object", active_targets_of(kinds)) :
              kinds \in UNION {[1..n -> TargetKinds] : n \in 0..MaxTargets}}

PrometheusUrls == {"http://localhost:9090", "localhost:9090"}

prometheus_url_ok(url) == url = "http://localhost:9090"

\* what self.session.get(targets_url) returns or raises
ScrapeGets ==
    [ok \in BOOLEAN |->
        {[exc |-> got.exc, status_code |-> got.status_code] : got \in SessionGets[ok]}]

\* the single except clause and the two error returns of the try block
scrape_issue(category, message, details) ==
    ValidationIssue("CRITICAL", category, message, None, details)

\* lines 606-607: "if target_job:" is false for None and for the empty
\* string; [t for t in active_targets if t.get('labels', {}).get('job') == target_job]
filter_job(targets, target_job) ==
    LET Wanted(t) == t.job = target_job
    IN  IF target_job \in {NoJob, ""} THEN targets ELSE SelectSeq(targets, Wanted)

\* lines 578-607 without the test of the envelope's status
query_targets_NoEnvelopeCheck(resp, target_job) ==
    IF resp.exc # "none"
    THEN [issues |-> <<scrape_issue("error", "Failed to validate Prometheus scraping",
                                    [error |-> resp.exc])>>,
          ok |-> FALSE, active_targets |-> <<>>]
    ELSE IF resp.status_code # 200
    THEN [issues |-> <<scrape_issue("prometheus", "Failed to query Prometheus API",
                                    [status_code |-> resp.status_code])>>,
          ok |-> FALSE, active_targets |-> <<>>]
    ELSE IF resp.json.kind = "invalid"
    THEN [issues |-> <<scrape_issue("error", "Failed to validate Prometheus scraping",
                                    [error |-> "JSONDecodeError"])>>,
          ok |-> FALSE, active_targets |-> <<>>]
    ELSE IF resp.json.kind = "array" \/ resp.json.data = "null"
    THEN [issues |-> <<scrape_issue("error", "Failed to validate Prometheus scraping",
                                    [error |-> "AttributeError"])>>,
          ok |-> FALSE, active_targets |-> <<>>]
    ELSE [issues |-> <<>>, ok |-> TRUE,
          active_targets |-> filter_job(resp.json.activeTargets, target_job)]

\* lines 578-607: the request, the status check, response.json(), the check
\* of the envelope and the job filter; ok when the loop over the targets is
\* reached
query_targets(resp, target_job) ==
    IF resp.exc # "none"
    THEN [issues |-> <<scrape_issue("error", "Failed to validate Prometheus scraping",
                                    [error |-> resp.exc])>>,
          ok |-> FALSE, active_targets |-> <<>>]
    ELSE IF resp.status_code # 200
    THEN [issues |-> <<scrape_issue("prometheus", "Failed to query Prometheus API",
                                    [status_code |-> resp.status_code])>>,
          ok |-> FALSE, active_targets |-> <<>>]
    ELSE IF resp.json.kind = "invalid"
    THEN [issues |-> <<scrape_issue("error", "Failed to validate Prometheus scraping",
                                    [error |-> "JSONDecodeError"])>>,
          ok |-> FALSE, active_targets |-> <<>>]
    ELSE IF resp.json.kind = "array"
    THEN [issues |-> <<scrape_issue("error", "Failed to validate Prometheus scraping",
                                    [error |-> "AttributeError"])>>,
          ok |-> FALSE, active_targets |-> <<>>]
    ELSE IF resp.json.status # "success"
    THEN [issues |-> <<scrape_issue("prometheus", "Prometheus API returned error",
                                    [response |-> resp.json.status])>>,
          ok |-> FALSE, active_targets |-> <<>>]
    ELSE IF resp.json.data = "null"
    THEN [issues |-> <<scrape_issue("error", "Failed to validate Prometheus scraping",
                                    [error |-> "AttributeError"])>>,
          ok |-> FALSE, active_targets |-> <<>>]
    ELSE [issues |-> <<>>, ok |-> TRUE,
          active_targets |-> filter_job(resp.json.activeTargets, target_job)]

\* target.get('lastScrapeDuration', 0), in milliseconds
scrape_duration(target) ==
    IF target.lastScrapeDuration = <<>> THEN 0 ELSE target.lastScrapeDuration[1]

\* lines 611-613 and the details of the two issues
target_details(target) ==
    [job |-> get(target.job, "unknown"), instance |-> get(target.instance, "unknown"),
     health |-> get(target.health, "unknown"), duration |-> scrape_duration(target)]

\* the body of the loop with the duration test in an else branch
target_issues_ElseDuration(target) ==
    IF get(target.health, "unknown") # "up"
    THEN <<ValidationIssue("CRITICAL", "prometheus", "Target down", None,
                           target_details(target))>>
    ELSE IF scrape_duration(target) > SlowScrapeMs
    THEN <<ValidationIssue("WARNING", "performance", "Slow scrape", None,
                           target_details(target))>>
    ELSE <<>>

\* lines 610-640: the issues one iteration of the loop appends
target_issues(target) ==
    (IF get(target.health, "unknown") # "up"
     THEN <<ValidationIssue("CRITICAL", "prometheus", "Target down", None,
                            target_details(target))>>
     ELSE <<>>)
    \o
    (IF scrape_duration(target) > SlowScrapeMs
     THEN <<ValidationIssue("WARNING", "performance", "Slow scrape", None,
                            target_details(target))>>
     ELSE <<>>)

\* validate_prometheus_scraping entered: start_time taken, result created
InitScrape ==
    /\ validator = [max_cardinality |-> DefaultMaxCardinality,
                    staleness_threshold |-> DefaultStalenessThreshold]
    /\ state = "QUERYING"
    /\ check = 0
    /\ clock = StartTime
    /\ response = [exc |-> "none", status_code |-> 0,
                   json |-> JsonBody("invalid", Missing, Missing, <<>>)]
    /\ \E url \in PrometheusUrls : result = ValidationResult(url)
    /\ raised = "none"
    /\ visited = <<"QUERYING">>
    /\ fetches = 0
    /\ main = NoMain
    /\ calls = <<>>
    /\ workers = NoWorkers
    /\ \E target_job \in {NoJob, "", "node"} :
         scrape = [target_job |-> target_job, active_targets |-> <<>>, index |-> 0]

\* lines 578-607, and lines 644-654 when the try block is left early
QueryTargets ==
    /\ state = "QUERYING"
    /\ Tick
    /\ fetches' = fetches + 1
    /\ \E got \in ScrapeGets[prometheus_url_ok(result.endpoint)] :
         response' \in [exc : {got.exc}, status_code : {got.status_code},
                        json : IF got.exc = "none" /\ got.status_code = 200
                               THEN JsonBodies
                               ELSE {JsonBody("invalid", Missing, Missing, <<>>)}]
    /\ IF query_targets(response', scrape.target_job).ok
       THEN /\ scrape' = [scrape EXCEPT
                              !.active_targets =
                                  query_targets(response', scrape.target_job).active_targets,
                              !.index = 1]
            /\ result' = result
            /\ Goto("TARGETS")
       ELSE /\ scrape' = scrape
            /\ result' = finally([result EXCEPT !.issues =
                              @ \o query_targets(response', scrape.target_job).issues],
                          clock')
            /\ Goto("DONE")
    /\ UNCHANGED <<validator, check, raised, main, calls, workers>>

\* lines 610-640: one iteration of the loop over active_targets
CheckTarget ==
    /\ state = "TARGETS"
    /\ scrape.index <= Len(scrape.active_targets)
    /\ result' = [result EXCEPT !.issues =
                      @ \o target_issues(scrape.active_targets[scrape.index])]
    /\ scrape' = [scrape EXCEPT !.index = @ + 1]
    /\ UNCHANGED <<validator, state, check, clock, response, raised, visited,
                   fetches, main, calls, workers>>

\* lines 642-654: total_metrics, the finally clause and return result
ReturnScrape ==
    /\ state = "TARGETS"
    /\ scrape.index > Len(scrape.active_targets)
    /\ Tick
    /\ result' = finally([result EXCEPT !.total_metrics = Len(scrape.active_targets)],
                         clock')
    /\ Goto("DONE")
    /\ UNCHANGED <<validator, check, response, raised, fetches, main, scrape, calls, workers>>

NextScrape ==
    \/ QueryTargets
    \/ CheckTarget
    \/ ReturnScrape

SpecScrape == InitScrape /\ [][NextScrape]_vars

\* the loop over the targets was reached and has ended
TargetsChecked == Returned /\ visited = <<"QUERYING", "TARGETS", "DONE">>

\* the issues of the result about the target with an instance
target_issue_indices(severity, category, instance) ==
    {i \in IssuesOf(severity, category) : result.issues[i].details.instance = instance}

\* C19: when the loop over the targets has ended, every returned target
\* that passes the job filter (a job name, not the empty string) has exactly one CRITICAL prometheus issue if
\* its health is not "up" and none if it is, and exactly one WARNING
\* performance issue if its last scrape took more than 10 seconds and none
\* if not; a target the filter excludes has no issue; the result holds no
\* other issue, and total_metrics counts the targets that passed the filter.
C19_EveryTargetEvaluated ==
    TargetsChecked
    => LET returned == response.json.activeTargets
           FilterGiven == scrape.target_job \notin {NoJob, ""}
           Included(t) == FilterGiven => t.job = scrape.target_job
           Down(t) == Included(t) /\ t.health # "up"
           Slow(t) == Included(t) /\ scrape_duration(t) > 10 * 1000
       IN  /\ \A p \in 1..Len(returned) :
                /\ Cardinality(target_issue_indices("CRITICAL", "prometheus",
                                                    returned[p].instance))
                   = IF Down(returned[p]) THEN 1 ELSE 0
                /\ Cardinality(target_issue_indices("WARNING", "performance",
                                                    returned[p].instance))
                   = IF Slow(returned[p]) THEN 1 ELSE 0
           /\ Len(result.issues) = count(returned, Down) + count(returned, Slow)
           /\ result.total_metrics = count(returned, Included)

\* an unhealthy, slow first target and a slow second one, both reported
C19_Witness ==
    /\ TargetsChecked
    /\ Len(response.json.activeTargets) = 2
    /\ response.json.activeTargets[1].health = "down"
    /\ Len(result.issues) = 3
    /\ result.issues[1].category = "prometheus"
    /\ result.issues[2].category = "performance"
    /\ result.issues[3].category = "performance"
    /\ result.issues[3].details.instance = response.json.activeTargets[2].instance

\* C20: when the request raised, or the status is not 2xx, or the body is
\* not JSON, or the envelope's status is not "success", the result returned
\* holds exactly one issue, CRITICAL and of category prometheus or error,
\* no target was evaluated and duration_ms is stamped.
C20_ControlPlaneFailure ==
    (/\ Returned
     /\ \/ response.exc # "none"
        \/ response.status_code \notin 200..299
        \/ response.status_code = 200 /\ response.json.kind = "invalid"
        \/ /\ response.status_code = 200
           /\ response.json.kind = "object"
           /\ response.json.status # "success")
    => /\ raised = "none"
       /\ Len(result.issues) = 1
       /\ result.issues[1].severity = "CRITICAL"
       /\ result.issues[1].category \in {"prometheus", "error"}
       /\ visited = <<"QUERYING", "DONE">>
       /\ scrape.index = 0
       /\ result.total_metrics = 0
       /\ result.duration_ms > 0

\* an error envelope answered with status 200
C20_Witness ==
    /\ Returned
    /\ response.status_code = 200
    /\ response.json.kind = "object"
    /\ response.json.status = "error"
    /\ Len(result.issues) = 1
    /\ result.issues[1].category = "prometheus"
    /\ result.duration_ms > 0

(***************************************************************************)
(* PrometheusMetricParser called directly, several times on one instance,  *)
(* as in test-validator.py                                                 *)
(***************************************************************************)
MaxCalls == 2

\* the texts of a call: any text for the first call of the instance, the
\* first text again or one of two other texts for the later calls
CallTexts ==
    IF calls = <<>> THEN Texts
    ELSE {calls[1].content, TEXT_SIMPLE_COUNTER, TEXT_HISTOGRAM}

\* one call of parse: its argument, what it returned, and the pending type
\* and help its locals held when it returned
call_record(content, st) ==
    [content |-> content, returned |-> parse_return(st),
     current_type |-> st.current_type, current_help |-> st.current_help]

parse_call(content) == call_record(content, parse_locals(content))

\* a PrometheusMetricParser constructed, no call made yet
InitParser ==
    /\ validator = [max_cardinality |-> DefaultMaxCardinality,
                    staleness_threshold |-> DefaultStalenessThreshold]
    /\ state = "NONE"
    /\ check = 0
    /\ clock = StartTime
    /\ response = NoResponse
    /\ result = ValidationResult("test")
    /\ raised = "none"
    /\ visited = <<>>
    /\ fetches = 0
    /\ main = NoMain
    /\ scrape = NoScrape
    /\ calls = <<>>
    /\ workers = NoWorkers

\* metrics, issues = parser.parse(content)
ParseCall ==
    /\ Len(calls) < MaxCalls
    /\ \E content \in CallTexts : calls' = Append(calls, parse_call(content))
    /\ UNCHANGED <<validator, state, check, clock, response, result, raised,
                   visited, fetches, main, scrape, workers>>

NextParser == ParseCall

SpecParser == InitParser /\ [][NextParser]_vars

lines_of(content) == split_char(strip(content), "\n")

\* the lines of the form "# TYPE <name> <type>"
type_directives(lines) ==
    {k \in 1..Len(lines) :
        /\ startswith(strip(lines[k]), TYPE_PREFIX)
        /\ Len(split_ws(strip(lines[k]), 3)) >= 4}

directive_name(line) == split_ws(strip(line), 3)[3]

directive_text(line) == split_ws(strip(line), 3)[4]

known_type(line) == lower(directive_text(line)) \in DOMAIN MetricTypeNames

\* the locals of parse after the first k lines
locals_after(lines, k) == parse_lines(parse_start, SubSeq(lines, 1, k), 1)

\* the locals of parse before and after a TYPE directive
type_directive_effect(line, before, after) ==
    IF known_type(line)
    THEN /\ after.issues = before.issues
         /\ after.current_type = MetricTypeNames[lower(directive_text(line))]
    ELSE /\ after.current_type = "untyped"
         /\ Len(after.issues) = Len(before.issues) + 1
         /\ SubSeq(after.issues, 1, Len(before.issues)) = before.issues
         /\ after.issues[Len(after.issues)].severity = "WARNING"
         /\ after.issues[Len(after.issues)].category = "parsing"
         /\ after.issues[Len(after.issues)].metric_name = directive_name(line)

type_directives_effect(lines) ==
    \A k \in type_directives(lines) :
        type_directive_effect(lines[k], locals_after(lines, k - 1),
                              locals_after(lines, k))

LastCall == calls[Len(calls)]

\* C22: a "# TYPE <name> <type>" line whose type, in lower case, is not
\* counter, gauge, histogram, summary or untyped sets the pending type to
\* untyped and appends exactly one WARNING parsing issue naming the metric;
\* a line with a known type sets the pending type to it and appends no
\* issue.
C22_UnknownTypeWarning ==
    calls # <<>>
    => type_directives_effect(lines_of(LastCall.content))

\* a counter directive, then a directive with the type foo, then a sample:
\* one WARNING naming requests, and the family is untyped
C22_Witness ==
    /\ calls # <<>>
    /\ LastCall.content = TEXT_UNKNOWN_TYPE
    /\ Len(LastCall.returned.issues) = 1
    /\ LastCall.returned.issues[1].severity = "WARNING"
    /\ LastCall.returned.issues[1].metric_name = <<"r","e","q","u","e","s","t","s">>
    /\ LastCall.returned.metrics[1].metric_type = "untyped"

\* the label names written in the label block of a sample line: in
\* name{a="x",b="y"} the texts before each "=", the values holding no comma
\* and no brace
label_block(line) ==
    IF find_char(line, "{", 1) = 0 \/ find_char(line, "}", 1) < find_char(line, "{", 1)
    THEN <<>>
    ELSE SubSeq(line, find_char(line, "{", 1) + 1, find_char(line, "}", 1) - 1)

written_label_names(line) ==
    {strip(SubSeq(pair, 1, find_char(pair, "=", 1) - 1)) :
        pair \in {p \in Range(split_char(label_block(line), ",")) :
                     find_char(p, "=", 1) # 0}}

\* the naming issues of the result about a family
naming_issues(family) ==
    {i \in IssuesOf("WARNING", "naming") : result.issues[i].metric_name = family}

\* C23: after parsing and the naming check, every family whose name has an
\* invalid format has a WARNING naming issue, and every label name written
\* on one of its sample lines that has an invalid format (a hyphen in it, a
\* leading underscore) has a WARNING naming issue that carries the label
\* name.
C23_InvalidNamesReported ==
    (Returned /\ GotBody)
    => \A line \in {l \in Range(sample_lines(response.text)) : parse_sample(l).ok} :
          LET family == get_base_metric_name(parse_sample(line).sample.name)
          IN  /\ validate_metric_name(family) # "" => naming_issues(family) # {}
              /\ \A label \in written_label_names(line) :
                    validate_label_name(label) # ""
                    => \E i \in naming_issues(family) :
                          /\ "label" \in DOMAIN result.issues[i].details
                          /\ result.issues[i].details.label = label

(***************************************************************************)
(* validate_metric_name and validate_label_name called directly, as in     *)
(* test_validate_metric_name_valid / _invalid and test_validate_label_name *)
(***************************************************************************)
MaxNameLen == 3

\* a letter of each case, a digit, the underscore, the colon, and two
\* characters no name may hold
NameChars == {"a", "Z", "0", "_", ":", "-", "\n"}

Names == UNION {[1..n -> NameChars] : n \in 0..MaxNameLen}

\* one call of each function on a name
validate_call(name) ==
    [name |-> name, metric_error |-> validate_metric_name(name),
     label_error |-> validate_label_name(name)]

\* parser.validate_metric_name(name), parser.validate_label_name(name)
ValidateName ==
    /\ calls = <<>>
    /\ \E name \in Names : calls' = <<validate_call(name)>>
    /\ UNCHANGED <<validator, state, check, clock, response, result, raised,
                   visited, fetches, main, scrape, workers>>

NextNames == ValidateName

SpecNames == InitParser /\ [][NextNames]_vars

\* every character of name is in the class, the first one in the class of
\* first characters, and name is not empty
name_of_classes(name, First(_), Later(_)) ==
    /\ name # <<>>
    /\ First(name[1])
    /\ \A i \in 2..Len(name) : Later(name[i])

metric_name_first(c) == IsLetter(c) \/ c \in {"_", ":"}

metric_name_later(c) == IsLetter(c) \/ IsDigit(c) \/ c \in {"_", ":"}

label_name_first(c) == IsLetter(c) \/ c = "_"

label_name_later(c) == IsLetter(c) \/ IsDigit(c) \/ c = "_"

\* C24: validate_metric_name(n) returns no error exactly when n is a
\* character of [A-Za-z_:] followed by characters of [A-Za-z0-9_:] and
\* nothing else, and does not start with an underscore;
\* validate_label_name(n) returns no error exactly when n is a character of
\* [A-Za-z_] followed by characters of [A-Za-z0-9_] and nothing else, and
\* does not start with an underscore; every name that starts with two
\* underscores is rejected.
C24_NameValidation ==
    \A i \in 1..Len(calls) :
        /\ calls[i].metric_error = ""
           <=> /\ name_of_classes(calls[i].name, metric_name_first, metric_name_later)
               /\ ~startswith(calls[i].name, <<"_">>)
        /\ calls[i].label_error = ""
           <=> /\ name_of_classes(calls[i].name, label_name_first, label_name_later)
               /\ ~startswith(calls[i].name, <<"_">>)
        /\ startswith(calls[i].name, <<"_", "_">>) => calls[i].label_error # ""

\* the series of a family: the distinct combinations of sample name and
\* label values among its samples
distinct_series(metric) ==
    {k \in 1..Len(metric.samples) :
        \A j \in 1..(k - 1) :
            \/ metric.samples[j].name # metric.samples[k].name
            \/ DOMAIN metric.samples[j].labels # DOMAIN metric.samples[k].labels
            \/ \E l \in DOMAIN metric.samples[k].labels :
                  metric.samples[j].labels[l] # metric.samples[k].labels[l]}

cardinality_issues(family) ==
    {i \in IssuesIn("cardinality") : result.issues[i].metric_name = family}

\* C25: the cardinality compared with max_cardinality is the number of
\* distinct label-value combinations among the family's samples: the family
\* has a cardinality issue exactly when that number exceeds max_cardinality
\* or 0.7 * max_cardinality, and the issue carries that number, so a sample
\* line that repeats a series already seen does not count.
C25_DistinctCardinality ==
    (Returned /\ GotBody)
    => \A k \in 1..Len(result.metrics_info) :
          LET metric == result.metrics_info[k]
              distinct == Cardinality(distinct_series(metric))
          IN  /\ cardinality_issues(metric.name) # {}
                 <=> \/ distinct > validator.max_cardinality
                     \/ gt_times_07(distinct, validator.max_cardinality)
              /\ \A i \in cardinality_issues(metric.name) :
                    result.issues[i].details.cardinality = distinct

(***************************************************************************)
(* Concurrent workers: every worker calls validate_endpoint once on the    *)
(* one ExporterValidator they share, and the calls interleave step by step *)
(***************************************************************************)
Workers == {"w1", "w2"}

\* what the endpoints serve to the workers: the Content-Type and the text
WorkerBodies ==
    {[content_type |-> TEXT_HTML, text |-> TEXT_TWO_STALE],
     [content_type |-> <<"a","p","p","l","i","c","a","t","i","o","n","/","j","s","o","n">>,
      text |-> TEXT_LABEL_NAMES]}

\* what self.session.get returns or raises: the exception or the status
WorkerGets ==
    [ok \in BOOLEAN |->
        {[exc |-> got.exc, status_code |-> got.status_code] :
            got \in {g \in SessionGets[ok] :
                        /\ g.exc \in {"none", "ConnectionError", "MissingSchema"}
                        /\ g.status_code \in {0, 200, 404}}}]

\* a worker that has not called validate_endpoint yet
IdleWorker(endpoint) ==
    [endpoint |-> endpoint, state |-> "IDLE", check |-> 0, start_time |-> 0,
     stale_at |-> 0, end_time |-> 0, order |-> <<>>,
     response |-> NoResponse, result |-> ValidationResult(endpoint)]

\* one result shared by all the calls
result_owner_Shared(w) == "w1"

\* the result a call writes to is a local of the call, lines 371-377: the
\* worker whose result the call of worker w reads and appends to
result_owner(w) == w

\* the issue of the except clause that catches exc
except_issue(exc) ==
    ValidationIssue("CRITICAL", ExceptClauses[except_clause(exc)].category,
                    ExceptClauses[except_clause(exc)].message, None, [error |-> exc])

\* the finally clause of a call that started at start_time
worker_finally(r, now, start_time) == [r EXCEPT !.duration_ms = now - start_time]

\* lines 404-409 on the value parse returned
parsed_result(r, parsed) ==
    [r EXCEPT !.issues = @ \o parsed.issues,
              !.metrics_info = parsed.metrics,
              !.total_metrics = Len(parsed.metrics),
              !.total_samples = sum_samples(parsed.metrics)]

\* the n-th rule check of lines 411-416
worker_check(n, metrics, order, v, now) ==
    CASE n = 1 -> check_duplicate_metrics(metrics)
      [] n = 2 -> check_metric_naming(metrics, order)
      [] n = 3 -> check_label_cardinality(metrics, v.max_cardinality)
      [] n = 4 -> check_metric_staleness(metrics, now, v.staleness_threshold)
      [] n = 5 -> check_metric_types(metrics)

\* the validator built with low thresholds, the workers idle
InitWorkers ==
    /\ validator = [max_cardinality |-> LowMaxCardinality,
                    staleness_threshold |-> LowStalenessThreshold]
    /\ state = "NONE"
    /\ check = 0
    /\ clock = StartTime
    /\ response = NoResponse
    /\ result = ValidationResult("test")
    /\ raised = "none"
    /\ visited = <<>>
    /\ fetches = 0
    /\ main = NoMain
    /\ scrape = NoScrape
    /\ calls = <<>>
    /\ workers \in {[w \in Workers |-> IdleWorker(endpoints[w])] :
                       endpoints \in [Workers -> Endpoints]}

worker_frame ==
    <<validator, state, check, response, result, raised, visited, fetches, main,
      scrape, calls>>

\* the result the call of w works on, and the workers after the call has
\* written r to it
result_of(w) == workers[result_owner(w)].result

with_result(ws, w, r) == [ws EXCEPT ![result_owner(w)].result = r]

\* lines 370-377: start_time = time.time() and the new ValidationResult;
\* the clock advances between two readings of it
WorkerStart(w) ==
    /\ workers[w].state = "IDLE"
    /\ Tick
    /\ workers' = [workers EXCEPT ![w].state = "FETCHING", ![w].start_time = clock]
    /\ UNCHANGED worker_frame

\* lines 379-402, and the except and finally clauses when get raises
WorkerFetch(w) ==
    /\ workers[w].state = "FETCHING"
    /\ UNCHANGED worker_frame
    /\ \E got \in WorkerGets[url_ok(workers[w].endpoint)] :
         \/ /\ got.exc # "none"
            /\ Tick
            /\ workers' = with_result(
                   [workers EXCEPT ![w].state = "DONE", ![w].end_time = clock,
                                   ![w].response = [NoResponse EXCEPT !.exc = got.exc]],
                   w,
                   worker_finally([result_of(w) EXCEPT !.issues =
                                       Append(@, except_issue(got.exc))],
                                  clock, workers[w].start_time))
         \/ /\ got.exc = "none"
            /\ got.status_code # 200
            /\ Tick
            /\ workers' = with_result(
                   [workers EXCEPT ![w].state = "DONE", ![w].end_time = clock,
                                   ![w].response = [NoResponse EXCEPT
                                                       !.status_code = got.status_code]],
                   w,
                   worker_finally(check_response(result_of(w),
                                                 [status_code |-> got.status_code]),
                                  clock, workers[w].start_time))
         \/ /\ got.exc = "none"
            /\ got.status_code = 200
            /\ UNCHANGED clock
            /\ \E body \in WorkerBodies :
                 workers' = with_result(
                     [workers EXCEPT ![w].state = "PARSING",
                                     ![w].response = [NoResponse EXCEPT
                                                         !.status_code = 200,
                                                         !.content_type = body.content_type,
                                                         !.text = body.text]],
                     w,
                     check_response(result_of(w),
                                    [status_code |-> 200,
                                     content_type |-> body.content_type]))

\* lines 404-409
WorkerParse(w) ==
    /\ workers[w].state = "PARSING"
    /\ UNCHANGED clock
    /\ UNCHANGED worker_frame
    /\ workers' = with_result(
           [workers EXCEPT ![w].state = "CHECKING", ![w].check = 1],
           w, parsed_result(result_of(w), parse(workers[w].response.text)))

\* the label names of the families of a result
label_names_of(r) ==
    UNION {r.metrics_info[k].label_names : k \in 1..Len(r.metrics_info)}

\* lines 411-415: one of the first four checks; the staleness check reads
\* the clock
WorkerCheck(w) ==
    /\ workers[w].state = "CHECKING"
    /\ workers[w].check \in 1..4
    /\ IF workers[w].check = 4 THEN Tick ELSE UNCHANGED clock
    /\ UNCHANGED worker_frame
    /\ \E order \in IF workers[w].check = 2
                     THEN Orders(label_names_of(result_of(w)))
                     ELSE {workers[w].order} :
         workers' = with_result(
             [workers EXCEPT
                 ![w].check = @ + 1,
                 ![w].order = order,
                 ![w].stale_at = IF workers[w].check = 4 THEN clock ELSE @],
             w,
             [result_of(w) EXCEPT !.issues = @ \o
                 worker_check(workers[w].check, result_of(w).metrics_info,
                              order, validator, clock)])

\* line 416, the finally clause and return result
WorkerReturn(w) ==
    /\ workers[w].state = "CHECKING"
    /\ workers[w].check = 5
    /\ Tick
    /\ UNCHANGED worker_frame
    /\ workers' = with_result(
           [workers EXCEPT ![w].check = 0, ![w].state = "DONE",
                           ![w].end_time = clock],
           w,
           worker_finally(
               [result_of(w) EXCEPT !.issues = @ \o
                   check_metric_types(result_of(w).metrics_info)],
               clock, workers[w].start_time))

NextWorkers ==
    \E w \in Workers :
        \/ WorkerStart(w)
        \/ WorkerFetch(w)
        \/ WorkerParse(w)
        \/ WorkerCheck(w)
        \/ WorkerReturn(w)

SpecWorkers == InitWorkers /\ [][NextWorkers]_vars

\* the result of validating the worker's endpoint alone, given what the
\* endpoint answered, the order in which the label names were iterated and
\* the times the call read from the clock
alone_parsed(wk, parsed) ==
    [ValidationResult(wk.endpoint) EXCEPT
        !.issues = check_response(ValidationResult(wk.endpoint), wk.response).issues
                   \o parsed.issues
                   \o rule_issues(parsed.metrics, wk.order, validator, wk.stale_at),
        !.metrics_info = parsed.metrics,
        !.total_metrics = Len(parsed.metrics),
        !.total_samples = sum_samples(parsed.metrics),
        !.duration_ms = wk.end_time - wk.start_time]

alone(wk) ==
    IF wk.response.exc # "none"
    THEN [ValidationResult(wk.endpoint) EXCEPT
             !.issues = <<except_issue(wk.response.exc)>>,
             !.duration_ms = wk.end_time - wk.start_time]
    ELSE IF wk.response.status_code # 200
    THEN [check_response(ValidationResult(wk.endpoint), wk.response) EXCEPT
             !.duration_ms = wk.end_time - wk.start_time]
    ELSE alone_parsed(wk, parse(wk.response.text))

\* C26: under every interleaving of the workers' calls, the result of a
\* call that has returned is the result of validating its endpoint alone:
\* what the other calls did has left no trace in it.
C26_WorkersIsolated ==
    \A w \in Workers :
        workers[w].state = "DONE" => workers[w].result = alone(workers[w])

\* both calls returned, the second one started after and returned before
\* the first, with different bodies and different issues
C26_Witness ==
    /\ workers # NoWorkers
    /\ \A w \in Workers : workers[w].state = "DONE"
    /\ workers["w1"].response.text = TEXT_TWO_STALE
    /\ workers["w2"].response.text = TEXT_LABEL_NAMES
    /\ workers["w1"].start_time < workers["w2"].start_time
    /\ workers["w2"].end_time < workers["w1"].end_time
    /\ workers["w1"].result.issues # workers["w2"].result.issues
    /\ workers["w1"].result.total_samples = 2
    /\ workers["w2"].result.total_samples = 3

\* seq is a prefix of longer
IsPrefix(seq, longer) ==
    Len(seq) <= Len(longer) /\ SubSeq(longer, 1, Len(seq)) = seq

\* C27: a step taken in the checking phase leaves the families (names,
\* types, help texts, samples, label-name sets), total_metrics and
\* total_samples as they are and only appends to the issues: the issues
\* before the step are a prefix of the issues after it.
C27_ChecksOnlyAppend ==
    [][state = "CHECKING"
       => /\ result'.metrics_info = result.metrics_info
          /\ result'.total_metrics = result.total_metrics
          /\ result'.total_samples = result.total_samples
          /\ result'.endpoint = result.endpoint
          /\ IsPrefix(result.issues, result'.issues)]_vars

\* before the last check: an http issue, then a naming issue and a
\* cardinality issue appended by the checks, the families as parsed
C27_Witness ==
    /\ state = "CHECKING"
    /\ check = 5
    /\ response.text = TEXT_LABEL_NAMES
    /\ Len(result.metrics_info) = 2
    /\ Len(result.issues) >= 3
    /\ result.issues[1].category = "http"
    /\ result.issues[2].category = "naming"
    /\ IssuesIn("cardinality") # {}

\* the lines of the form "# HELP <name> <text>"
help_directives(lines) ==
    {k \in 1..Len(lines) :
        /\ ~startswith(strip(lines[k]), TYPE_PREFIX)
        /\ startswith(strip(lines[k]), HELP_PREFIX)
        /\ Len(split_ws(strip(lines[k]), 3)) >= 4}

\* the type of the last TYPE directive among the first k lines, whatever
\* name it has: untyped for an unknown type and when there is none
pending_type(lines, k) ==
    LET before == {d \in type_directives(lines) : d <= k}
    IN  IF before = {} \/ ~known_type(lines[SetMax(before)]) THEN "untyped"
        ELSE MetricTypeNames[lower(directive_text(lines[SetMax(before)]))]

\* the text of the last HELP directive among the first k lines, empty when
\* there is none
pending_help(lines, k) ==
    LET before == {d \in help_directives(lines) : d <= k}
    IN  IF before = {} THEN <<>> ELSE directive_text(lines[SetMax(before)])

\* the sample lines of a family: the lines parse reads a sample from whose
\* name, without its suffix, is the family's
family_lines(lines, family) ==
    {k \in 1..Len(lines) :
        /\ strip(lines[k]) # <<>>
        /\ ~startswith(strip(lines[k]), <<"#">>)
        /\ parse_sample(strip(lines[k])).ok
        /\ get_base_metric_name(parse_sample(strip(lines[k])).sample.name) = family}

\* the family is as its sample lines, the set at, say
family_as_read(lines, metric, at) ==
    /\ at # {}
    /\ metric.metric_type = pending_type(lines, SetMin(at))
    /\ metric.help_text = pending_help(lines, SetMin(at))
    /\ Len(metric.samples) = Cardinality(at)

families_as_first_read(lines, metrics) ==
    /\ \A k \in 1..Len(metrics) :
          family_as_read(lines, metrics[k], family_lines(lines, metrics[k].name))
    /\ check_duplicate_metrics(metrics) = <<>>

unknown_types(lines) == {d \in type_directives(lines) : ~known_type(lines[d])}

\* C28: the type and the help text of a family are those of the last TYPE
\* and HELP directives before its first sample line, whatever metric they
\* name (untyped and empty when there is none); directives after that line,
\* even ones that name the family, change neither, every sample line of the
\* name is in the one family, and the reappearance is not flagged: parse
\* returns no issue but those of unknown types, and the duplicate check
\* finds nothing.
C28_PendingTypeAndHelp ==
    calls # <<>>
    => /\ families_as_first_read(lines_of(LastCall.content), LastCall.returned.metrics)
       /\ Len(LastCall.returned.issues)
             = Cardinality(unknown_types(lines_of(LastCall.content)))

\* a sample, then TYPE and HELP directives naming it, then the sample
\* again: one untyped family without help, two samples, no issue
C28_Witness ==
    /\ calls # <<>>
    /\ LastCall.content = TEXT_LATE_TYPE
    /\ Len(LastCall.returned.metrics) = 1
    /\ LastCall.returned.metrics[1].metric_type = "untyped"
    /\ LastCall.returned.metrics[1].help_text = <<>>
    /\ Len(LastCall.returned.metrics[1].samples) = 2
    /\ LastCall.current_type = "counter"
    /\ LastCall.returned.issues = <<>>

\* C29: when the fetch ends with a response whose status is 2xx, the
\* pipeline goes on to parsing and checking and the result holds no
\* CRITICAL http issue.
C29_AnySuccessStatus ==
    (Returned /\ response.exc = "none" /\ response.status_code \in 200..299)
    => /\ visited = <<"FETCHING", "PARSING", "CHECKING", "DONE">>
       /\ IssuesOf("CRITICAL", "http") = {}

\* C30: the exit code main computes from its results is the same with
\* exit_on_warning set and unset: a result with a warning has exit code 1
\* or 2 already, so the floor of 1 changes nothing.
C30_ExitOnWarningNoEffect ==
    (main.pc = "returned" /\ ~main.early)
    => /\ max_exit_code(main.results, TRUE) = max_exit_code(main.results, FALSE)
       /\ main.exit_code = max_exit_code(main.results, ~main.args.exit_on_warning)

\* exit_on_warning set, a result with a warning and none with a critical
\* issue: exit code 1, as without the flag
C30_Witness ==
    /\ main.pc = "returned"
    /\ ~main.early
    /\ main.args.exit_on_warning
    /\ \E i \in 1..Len(main.results) : has_warnings(main.results[i])
    /\ \A i \in 1..Len(main.results) : ~has_critical(main.results[i])
    /\ main.exit_code = 1
    /\ max_exit_code(main.results, FALSE) = 1

====
